---- MODULE Spec2Model ----
(***************************************************************************)
(* Consensus-log messaging layer of Circularity Nexus:                     *)
(*   HCSService       (blockchain/hcs_service.py)       the Log Client     *)
(*   ConsensusManager (blockchain/consensus_manager.py) the topic registry *)
(*   HCS10Agent       (blockchain/hcs10_agent.py)       the agent protocol *)
(* over an external consensus network that keeps, per topic, the ordered   *)
(* list of appended messages.                                              *)
(***************************************************************************)
EXTENDS Integers, Sequences, FiniteSets, TLC

VARIABLES
    topics,          \* the network: topic id (index) -> [memo, submit_key, messages]
    nextAccount,     \* the network: id of the next account
    clock,           \* datetime.utcnow() of the process
    topic_registry,  \* ConsensusManager.topic_registry: topic id -> entry
    confirmed,       \* per topic: submit_* calls whose append returned successfully
    agents,          \* per agent: the fields of an HCS10Agent instance
    subs,            \* HCSService: its subscription tables and the live SDK
                     \* subscriptions the network serves
    tasks,           \* ConsensusManager: the submit_* coroutines suspended at
                     \* their await of submit_message
    input,           \* what the caller holds: a payload, a business data object
    last             \* the last operation: its inputs, its outcome, what it called

vars == <<topics, nextAccount, clock, topic_registry, confirmed, agents,
          subs, tasks, input, last>>

(***************************************************************************)
(* Bounds of the model.                                                    *)
(***************************************************************************)
MaxLen == 3          \* length of a Log Client payload
MaxChunk == 2        \* largest chunk_size argument tried
MaxLogMsgs == 3      \* messages on a topic in the Log Client specification
MaxLogTopics == 1    \* topics in the Log Client specification
MaxCMTopics == 2     \* topics in the ConsensusManager specification
MaxCMMsgs == 3       \* messages on a topic in the ConsensusManager specification
MaxCMOps == 3        \* state-changing operations in the ConsensusManager specification
MaxAgentTopics == 4  \* topics the agents own, per agent
MaxAgentMsgs == 2    \* messages on the registry topic
MaxSends == 1        \* messages on a connection topic
MaxConnections == 1  \* connection topics, with two agents
MaxOwnConnections == 2  \* connection topics, with one agent
MaxInboxMsgs == 1    \* messages on a topic that receives handshake envelopes
MaxSubTopics == 2    \* topics in the specification of the subscriptions
MaxSubs == 2         \* live subscriptions
MaxSubMsgs == 2      \* messages on a topic in the specification of the subscriptions
MaxPlatformCalls == 2 \* initialize_platform_topics calls that create topics
MaxTasks == 2        \* submit_* coroutines suspended at the same time
MaxTaskMsgs == 2     \* messages on a topic in the specification of these
MaxAgentClock == 2   \* readings of the clock in the agent specification
\* submit_message's default chunk_size (1024 in the source), scaled down: an
\* envelope without bulk is 4 tokens long.
DefaultChunkSize == 4

None == 0            \* Python's None for an id, a count or a time

Min(a, b) == IF a < b THEN a ELSE b

(***************************************************************************)
(* Bytes, strings and JSON text.  A payload is a sequence of tokens, one   *)
(* per byte (or block of bytes).  Every token is a record of one shape.    *)
(***************************************************************************)
Tok(k) ==
    [k |-> k, type |-> "", priority |-> "", fields |-> {}, bulk |-> 0,
     p |-> "", op |-> "", account_id |-> 0, operator_topic |-> 0,
     operator_account |-> 0, connection_topic_id |-> 0, connection_id |-> 0,
     connected_account_id |-> 0, inbound |-> 0, outbound |-> 0]

\* raw bytes: an ASCII byte, the lead byte and the continuation byte of a
\* two-byte UTF-8 character
ByteA == Tok("a")
ByteLead == Tok("L")
ByteCont == Tok("C")
RawBytes == {ByteA, ByteLead, ByteCont}
\* characters of a str: the ASCII character and the two-byte character
CharA == Tok("a")
CharE == Tok("e2")
Chars == {CharA, CharE}

Open == Tok("{")
Close == Tok("}")
Digit == Tok("9")

RECURSIVE Encode(_)
\* str.encode('utf-8')
Encode(s) ==
    IF s = <<>> THEN <<>>
    ELSE IF Head(s) = CharE THEN <<ByteLead, ByteCont>> \o Encode(Tail(s))
    ELSE <<Head(s)>> \o Encode(Tail(s))

RECURSIVE WellFormedUTF8(_)
\* does bytes.decode('utf-8') succeed
WellFormedUTF8(b) ==
    IF b = <<>> THEN TRUE
    ELSE IF Head(b) = ByteLead
         THEN Len(b) >= 2 /\ b[2] = ByteCont /\ WellFormedUTF8(Tail(Tail(b)))
    ELSE IF Head(b) = ByteCont THEN FALSE
    ELSE WellFormedUTF8(Tail(b))

RECURSIVE Decode(_)
\* bytes.decode('utf-8') of well-formed bytes
Decode(b) ==
    IF b = <<>> THEN <<>>
    ELSE IF Head(b) = ByteLead THEN <<CharE>> \o Decode(Tail(Tail(b)))
    ELSE <<Head(b)>> \o Decode(Tail(b))

RECURSIVE Flatten(_)
Flatten(ss) == IF ss = <<>> THEN <<>> ELSE Head(ss) \o Flatten(Tail(ss))

(***************************************************************************)
(* JSON.  An object (a dict) is a record of the token shape: a business    *)
(* envelope (k = "envelope"), an agent-protocol envelope (k = "env"), an   *)
(* agent profile (k = "profile") or the empty dict (k = "empty").  Its     *)
(* text is "{", its body tokens, "}".  The digits of a long number in the  *)
(* data of a business envelope are one token each (bulk of them).          *)
(***************************************************************************)
Digits(n) == [i \in 1..n |-> Digit]

AllDigits(text) == \A i \in 1..Len(text) : text[i] = Digit

\* json.dumps(obj)
JsonDumps(obj) ==
    IF obj.k = "envelope"
    THEN <<Open,
           [Tok("hdr") EXCEPT !.type = obj.type, !.priority = obj.priority],
           [Tok("data") EXCEPT !.fields = obj.fields]>>
         \o Digits(obj.bulk) \o <<Close>>
    ELSE IF obj.k = "empty" THEN <<Open, Close>>
    ELSE <<Open, obj, Close>>

\* json.loads(text): a dict, another JSON value (a number), or JSONDecodeError
JsonLoads(text) ==
    LET n == Len(text)
        inner == SubSeq(text, 2, n - 1)
    IN IF n >= 2 /\ text[1] = Open /\ text[n] = Close
       THEN IF inner = <<>> THEN [tag |-> "dict", v |-> Tok("empty")]
            ELSE IF Len(inner) = 1 /\ inner[1].k \in {"env", "profile"}
                 THEN [tag |-> "dict", v |-> inner[1]]
            ELSE IF /\ Len(inner) >= 2
                    /\ inner[1].k = "hdr"
                    /\ inner[2].k = "data"
                    /\ AllDigits(SubSeq(inner, 3, Len(inner)))
                 THEN [tag |-> "dict",
                       v |-> [Tok("envelope") EXCEPT
                                !.type = inner[1].type,
                                !.priority = inner[1].priority,
                                !.fields = inner[2].fields,
                                !.bulk = Len(inner) - 2]]
            ELSE [tag |-> "error", v |-> Tok("")]
       ELSE IF n >= 1 /\ AllDigits(text) THEN [tag |-> "int", v |-> Tok("")]
       ELSE [tag |-> "error", v |-> Tok("")]

(***************************************************************************)
(* The external consensus network.                                         *)
(***************************************************************************)
TopicExists(tps, t) == t \in 1..Len(tps)

\* TopicCreateTransaction executed: the new topic's id is the next free one
NetCreateTopic(tps, memo, submit_key) ==
    Append(tps, [memo |-> memo, submit_key |-> submit_key, messages |-> <<>>])

\* a transaction id; the transaction that appended a message is identified
\* by the topic and the sequence number the message got
TxId(t, n) == [topic |-> t, seq |-> n]
NoTx == TxId(0, 0)

\* TopicMessageSubmitTransaction executed: the message gets the next sequence
\* number of its topic; the network stores what the transaction carried
NetAppend(tps, t, contents, memo) ==
    [tps EXCEPT ![t].messages =
        Append(@, [contents |-> contents, memo |-> memo,
                   transaction_id |-> TxId(t, Len(@) + 1),
                   sequence_number |-> Len(@) + 1])]

NoMemo == [base |-> "", chunk_index |-> 0, total_chunks |-> 0]

(***************************************************************************)
(* HCSService: the Log Client.                                             *)
(***************************************************************************)
\* slices of full length only: the bytes after the last full slice are left out
ChunksOfFullLength(message_bytes, chunk_size) ==
    [i \in 1..(Len(message_bytes) \div chunk_size) |->
        SubSeq(message_bytes, (i - 1) * chunk_size + 1, i * chunk_size)]

\* message_bytes[i:i + chunk_size] for i in range(0, len, chunk_size)
Chunks(message_bytes, chunk_size) ==
    [i \in 1..((Len(message_bytes) + chunk_size - 1) \div chunk_size) |->
        SubSeq(message_bytes, (i - 1) * chunk_size + 1,
               Min(i * chunk_size, Len(message_bytes)))]

\* the memo of the i-th (0-based) chunk's transaction
ChunkMemo(memo, i, total_chunks) ==
    IF memo # ""
    THEN [base |-> memo, chunk_index |-> i + 1, total_chunks |-> total_chunks]
    ELSE NoMemo

\* the transactions submit_message issues for a payload, in order
Transactions(message_bytes, memo, chunk_size) ==
    IF Len(message_bytes) > chunk_size
    THEN LET chunks == Chunks(message_bytes, chunk_size)
         IN [i \in 1..Len(chunks) |->
                [message |-> chunks[i],
                 memo |-> ChunkMemo(memo, i - 1, Len(chunks))]]
    ELSE << [message |-> message_bytes,
             memo |-> IF memo # "" THEN [NoMemo EXCEPT !.base = memo] ELSE NoMemo] >>

\* mutant: the transactions take effect together or not at all
ExecuteAllOrNothing(tps, t, txs, n) ==
    LET F[i \in 0..n] ==
            IF i = 0 THEN tps
            ELSE NetAppend(F[i - 1], t, txs[i].message, txs[i].memo)
    IN IF n < Len(txs) THEN tps ELSE F[n]

RECURSIVE ExecuteAll(_, _, _, _)
\* execute the first n transactions of txs on topic t, in order
ExecuteAll(tps, t, txs, n) ==
    IF n = 0 THEN tps
    ELSE NetAppend(ExecuteAll(tps, t, txs, n - 1), t, txs[n].message, txs[n].memo)

\* HCSService.submit_message.  failAt = k > 0: the network fails the k-th
\* transaction (a topic that does not exist fails the first).
\* Returns the network afterwards and the result dict (or the error).
SubmitMessage(tps, topic_id, message_bytes, memo, chunk_size, failAt) ==
    LET txs == Transactions(message_bytes, memo, chunk_size)
        fail == IF ~TopicExists(tps, topic_id) THEN 1 ELSE failAt
        done == IF fail = 0 THEN Len(txs) ELSE fail - 1
        base == IF TopicExists(tps, topic_id) THEN Len(tps[topic_id].messages) ELSE 0
    IN [ok |-> fail = 0,
        error |-> IF fail = 0 THEN "" ELSE "BlockchainError",
        topics |-> IF TopicExists(tps, topic_id)
                   THEN ExecuteAll(tps, topic_id, txs, done) ELSE tps,
        txs |-> IF fail = 0 THEN Len(txs) ELSE fail,
        chunked |-> Len(message_bytes) > chunk_size,
        total_chunks |-> IF Len(message_bytes) > chunk_size THEN Len(txs) ELSE 0,
        initial_transaction_id |->
            IF fail = 0 /\ Len(message_bytes) > chunk_size
            THEN TxId(topic_id, base + 1) ELSE NoTx,
        transaction_ids |-> [i \in 1..done |-> TxId(topic_id, base + i)],
        sequence_numbers |-> [i \in 1..done |-> base + i]]

\* HCSService.get_topic_messages: the first `limit` messages of the topic in
\* sequence order; a message whose bytes do not decode is dropped.  The
\* network's message objects carry no chunk attributes: the transactions
\* that carried the chunks named none.
GetTopicMessages(tps, topic_id, limit) ==
    IF ~TopicExists(tps, topic_id)
    THEN [ok |-> FALSE, messages |-> <<>>]
    ELSE LET ms == tps[topic_id].messages
             n == Min(limit, Len(ms))
             F[i \in 0..n] ==
                IF i = 0 THEN <<>>
                ELSE IF WellFormedUTF8(ms[i].contents)
                     THEN Append(F[i - 1],
                            [consensus_timestamp |-> ms[i].sequence_number,
                             sequence_number |-> ms[i].sequence_number,
                             running_hash |-> ms[i].sequence_number,
                             contents |-> Decode(ms[i].contents),
                             chunk_info |-> [initial_transaction_id |-> NoTx,
                                             chunk_number |-> None,
                                             total_chunks |-> None]])
                     ELSE F[i - 1]
         IN [ok |-> TRUE, messages |-> F[n]]

\* HCSService.__init__ and ConsensusManager.__init__: subscribed_topics,
\* message_handlers and active_subscriptions are empty, and the network
\* serves no subscription of this client
Subs0 ==
    [live |-> <<>>, subscribed_topics |-> {}, message_handlers |-> <<>>,
     active_subscriptions |-> {}]

\* a callable of the caller, given to subscribe_to_topic as it is
RawHandler(h) == [name |-> h, filtered |-> FALSE, filter |-> ""]

\* filtered_handler of subscribe_to_consensus_updates, which holds the
\* caller's message_handler and the message_type_filter
FilteredHandler(h, message_type_filter) ==
    [name |-> h, filtered |-> TRUE, filter |-> message_type_filter]

\* self.message_handlers[topic_id] = message_handler
SetHandler(handlers, topic_id, message_handler) ==
    [t \in DOMAIN handlers \cup {topic_id} |->
        IF t = topic_id THEN message_handler ELSE handlers[t]]

\* del self.message_handlers[topic_id]
DelHandler(handlers, topic_id) ==
    [t \in DOMAIN handlers \ {topic_id} |-> handlers[t]]

\* HCSService.subscribe_to_topic(topic_id, message_handler, start_time) on
\* an existing topic.  query.subscribe starts a subscription of the SDK that
\* hands every message from start_time on (from now when none is given) to
\* wrapped_handler, which holds message_handler; what subscribe returns is
\* not kept.  failAt = 1: query.subscribe raises.  cancelled and invoked are
\* not state of the program: they record that unsubscribe_from_topic has
\* returned for the topic since, and the messages handed to the caller's
\* handler.
SubscribeToTopic(sb, tps, topic_id, message_handler, from_start, failAt) ==
    LET start == IF from_start THEN 1 ELSE Len(tps[topic_id].messages) + 1
    IN IF failAt = 1 THEN [ok |-> FALSE, subs |-> sb]
       ELSE [ok |-> TRUE,
             subs |-> [sb EXCEPT
                !.live = Append(@, [topic |-> topic_id,
                                    handler |-> message_handler,
                                    start |-> start, next |-> start,
                                    cancelled |-> FALSE, invoked |-> <<>>]),
                !.subscribed_topics = @ \cup {topic_id},
                !.message_handlers = SetHandler(@, topic_id, message_handler)]]

\* ConsensusManager.subscribe_to_consensus_updates(topic_id, message_handler,
\* message_type_filter): subscribe_to_topic with filtered_handler and no
\* start_time, then self.active_subscriptions[topic_id] = True
SubscribeToConsensusUpdates(sb, tps, topic_id, message_handler, message_type_filter, failAt) ==
    LET r == SubscribeToTopic(sb, tps, topic_id,
                              FilteredHandler(message_handler, message_type_filter),
                              FALSE, failAt)
    IN [ok |-> r.ok,
        subs |-> IF r.ok
                 THEN [r.subs EXCEPT !.active_subscriptions = @ \cup {topic_id}]
                 ELSE sb]

\* HCSService.unsubscribe_from_topic(topic_id): the two table entries are
\* deleted; nothing is said to the SDK
UnsubscribeFromTopic(sb, topic_id) ==
    [sb EXCEPT
        !.live = [k \in DOMAIN sb.live |->
                    IF sb.live[k].topic = topic_id
                    THEN [sb.live[k] EXCEPT !.cancelled = TRUE]
                    ELSE sb.live[k]],
        !.subscribed_topics = @ \ {topic_id},
        !.message_handlers = DelHandler(@, topic_id)]

\* mutant: an exception in the handler ends the subscription
ServedUnlessFault(sub, invoked, fault) ==
    IF fault THEN [sub EXCEPT !.next = MaxSubMsgs + 2]
    ELSE [sub EXCEPT !.next = @ + 1,
                     !.invoked = IF invoked THEN Append(@, sub.next) ELSE @]

\* the subscription after wrapped_handler has returned: every exception was
\* caught and logged, the SDK goes on with the message after
Served(sub, invoked, fault) ==
    [sub EXCEPT !.next = @ + 1,
                !.invoked = IF invoked THEN Append(@, sub.next) ELSE @]

\* the SDK hands the next message of its k-th subscription to
\* wrapped_handler.  Contents that do not decode raise before the handler is
\* called.  A caller's handler is called and may raise.  filtered_handler
\* parses the contents (JSONDecodeError, or AttributeError of content.get on
\* a value that is no dict), returns on a type the filter excludes, and calls
\* the caller's handler, which may raise.  Every exception is caught and
\* logged, in filtered_handler or in wrapped_handler.
DeliverNext(sb, tps, k, raises) ==
    LET sub == sb.live[k]
        m == tps[sub.topic].messages[sub.next]
        content == JsonLoads(Decode(m.contents))
        cause ==
            IF ~WellFormedUTF8(m.contents) THEN "UnicodeDecodeError"
            ELSE IF ~sub.handler.filtered THEN ""
            ELSE IF content.tag = "error" THEN "JSONDecodeError"
            ELSE IF content.tag # "dict" THEN "AttributeError"
            ELSE IF sub.handler.filter # "" /\ content.v.type # sub.handler.filter
                 THEN "filtered"
            ELSE ""
        invoked == cause = ""
        raised == invoked /\ raises
        fault == raised \/ cause \notin {"", "filtered"}
    IN [invoked |-> invoked,
        raised |-> raised,
        cause |-> IF raised THEN "handler" ELSE cause,
        sequence_number |-> sub.next,
        subs |-> [sb EXCEPT !.live[k] = Served(sub, invoked, fault)]]

(***************************************************************************)
(* The record of the last operation.                                       *)
(***************************************************************************)
NoData == [fields |-> {}, bulk |-> 0]

NoResult ==
    [total_chunks |-> 0, initial_transaction_id |-> NoTx,
     transaction_ids |-> <<>>, sequence_numbers |-> <<>>]

\* the dict get_agent_status returns (the profile, fixed at construction, left out)
NoSnapshot ==
    [agent_id |-> 0, status |-> "",
     topics |-> [inbound |-> 0, outbound |-> 0, profile |-> 0],
     connections |-> [active |-> 0, total |-> 0], last_activity |-> 0]

Last0 ==
    [op |-> "none", agent |-> "", target |-> 0, topic |-> 0, ok |-> TRUE,
     error |-> "", cause |-> "", calls |-> 0, txs |-> 0, kind |-> "",
     memo |-> "", chunk_size |-> 0, chunked |-> FALSE, failAt |-> 0,
     filter |-> "", result |-> NoResult, out |-> <<>>, time |-> 0,
     trace |-> <<>>, text |-> "", snapshot |-> NoSnapshot, seen |-> 0]

Input0 == [payload |-> <<>>, data |-> NoData, priority |-> "", hash_seed |-> 0,
           net |-> "unreliable"]

ResultOf(r) ==
    [total_chunks |-> r.total_chunks,
     initial_transaction_id |-> r.initial_transaction_id,
     transaction_ids |-> r.transaction_ids,
     sequence_numbers |-> r.sequence_numbers]

(***************************************************************************)
(* ConsensusManager: the topic registry and the typed submit operations.   *)
(***************************************************************************)
TopicTypes ==
    {"waste_submissions", "carbon_verification", "recycling_events",
     "audit_trail", "marketplace_activity", "smart_bin_data"}

Priorities == {"low", "medium", "high", "critical"}

SubmitKinds ==
    {"waste_submission", "carbon_verification", "recycling_event",
     "audit_record", "smart_bin_data"}

\* required_fields of each submit_* operation, in the order they are checked
RequiredFields(kind) ==
    CASE kind = "waste_submission" ->
            <<"user_id", "waste_type", "weight_kg", "location", "timestamp">>
      [] kind = "carbon_verification" ->
            <<"calculation_id", "co2_saved_kg", "methodology",
              "verification_timestamp">>
      [] kind = "recycling_event" ->
            <<"facility_id", "event_type", "waste_processed_kg", "timestamp">>
      [] kind = "audit_record" ->
            <<"action", "user_id", "resource_type", "resource_id", "timestamp">>
      [] kind = "smart_bin_data" ->
            <<"bin_id", "location", "fill_level", "timestamp">>

Range(f) == {f[i] : i \in DOMAIN f}

\* for field in required_fields: if field not in data: raise ValidationError
MissingField(kind, data) ==
    \E i \in DOMAIN RequiredFields(kind) : RequiredFields(kind)[i] \notin data.fields

\* the message dict a submit_* operation builds
Envelope(kind, priority, data) ==
    [Tok("envelope") EXCEPT !.type = kind, !.priority = priority,
                            !.fields = data.fields, !.bulk = data.bulk]

\* self.topic_registry[result["topic_id"]] = topic_info
Register(reg, topic_id, topic_type) ==
    [t \in DOMAIN reg \cup {topic_id} |->
        IF t = topic_id
        THEN [topic_type |-> topic_type,
              message_count |-> 0, last_activity |-> None]
        ELSE reg[t]]

\* mutant: the count is set, not incremented
UpdateRegistrySetsOne(reg, topic_id, now) ==
    IF topic_id \in DOMAIN reg
    THEN [reg EXCEPT ![topic_id].message_count = 1,
                     ![topic_id].last_activity = now]
    ELSE reg

\* if topic_id in self.topic_registry: message_count += 1; last_activity = now
UpdateRegistry(reg, topic_id, now) ==
    IF topic_id \in DOMAIN reg
    THEN [reg EXCEPT ![topic_id].message_count = @ + 1,
                     ![topic_id].last_activity = now]
    ELSE reg

\* the topic types in the order initialize_platform_topics creates them
PlatformTopicTypes ==
    <<"waste_submissions", "carbon_verification", "recycling_events",
      "audit_trail", "marketplace_activity", "smart_bin_data">>

\* mutant: a topic of the type that is registered already is used again
CreateOrReuseTopic(reg, tps, topic_type) ==
    IF \E t \in DOMAIN reg : reg[t].topic_type = topic_type
    THEN [topics |-> tps, registry |-> reg]
    ELSE [topics |-> NetCreateTopic(tps, topic_type, "public"),
          registry |-> Register(reg, Len(tps) + 1, topic_type)]

\* ConsensusManager.create_consensus_topic succeeding: the topic is created
\* on the network and registered under the id the network gave it
CreateConsensusTopic(reg, tps, topic_type) ==
    [topics |-> NetCreateTopic(tps, topic_type, "public"),
     registry |-> Register(reg, Len(tps) + 1, topic_type)]

RECURSIVE CreatePlatformTopics(_, _, _)
\* the first n create_consensus_topic calls of initialize_platform_topics
CreatePlatformTopics(reg, tps, n) ==
    IF n = 0 THEN [topics |-> tps, registry |-> reg]
    ELSE LET before == CreatePlatformTopics(reg, tps, n - 1)
         IN CreateConsensusTopic(before.registry, before.topics,
                                 PlatformTopicTypes[n])

\* ConsensusManager.initialize_platform_topics().  failAt = k > 0: the k-th
\* create_consensus_topic raises; the topics created before stay created
\* and registered.
InitializePlatformTopics(reg, tps, failAt) ==
    LET done == IF failAt = 0 THEN Len(PlatformTopicTypes) ELSE failAt - 1
        r == CreatePlatformTopics(reg, tps, done)
    IN [ok |-> failAt = 0, calls |-> IF failAt = 0 THEN done ELSE failAt,
        topics |-> r.topics, registry |-> r.registry,
        platform_topics |-> IF failAt = 0
                            THEN [i \in 1..done |-> Len(tps) + i] ELSE <<>>]

\* the subject of the message of the BlockchainError a submit_* operation
\* raises: f"Waste submission to consensus failed: {str(e)}" and the like
FailureSubject(kind) ==
    CASE kind = "waste_submission" -> "Waste submission"
      [] kind = "carbon_verification" -> "Carbon verification"
      [] kind = "recycling_event" -> "Recycling event"
      [] kind = "audit_record" -> "Audit record"
      [] kind = "smart_bin_data" -> "Smart bin data"

\* mutant: the registry entry is updated whether or not the append succeeded
RegistryAfterSubmitAlways(ok, reg, topic_id, now) ==
    UpdateRegistry(reg, topic_id, now)

\* the registry after the submit_message call of a submit_* operation: the
\* update follows the await, so an exception from the call skips it
RegistryAfterSubmit(ok, reg, topic_id, now) ==
    IF ok THEN UpdateRegistry(reg, topic_id, now) ELSE reg

\* the body of submit_waste_submission, submit_carbon_verification,
\* submit_recycling_event, submit_audit_record and submit_smart_bin_data:
\* validate, build the envelope, submit_message, update the registry; every
\* exception leaves as a BlockchainError
SubmitTyped(kind, reg, tps, now, topic_id, data, priority, failAt) ==
    IF MissingField(kind, data)
    THEN [ok |-> FALSE, error |-> "BlockchainError", cause |-> "ValidationError",
          text |-> FailureSubject(kind),
          calls |-> 0, txs |-> 0, topics |-> tps, registry |-> reg,
          chunked |-> FALSE, result |-> NoResult]
    ELSE LET r == SubmitMessage(tps, topic_id,
                                Encode(JsonDumps(Envelope(kind, priority, data))),
                                kind, DefaultChunkSize, failAt)
         IN [ok |-> r.ok, error |-> r.error,
             cause |-> IF r.ok THEN "" ELSE "BlockchainError",
             text |-> IF r.ok THEN "" ELSE FailureSubject(kind),
             calls |-> 1, txs |-> r.txs, topics |-> r.topics,
             registry |-> RegistryAfterSubmit(r.ok, reg, topic_id, now),
             chunked |-> r.chunked, result |-> ResultOf(r)]

\* a submit_* coroutine up to its await of submit_message: a missing field
\* raises before; otherwise the transaction goes to the network and the
\* coroutine is suspended until the outcome is there.  seen is no state of
\* the program: the message_count of the topic at that moment.
SubmitTypedAwait(kind, reg, tps, topic_id, data, priority, failAt) ==
    LET r == SubmitMessage(tps, topic_id,
                           Encode(JsonDumps(Envelope(kind, priority, data))),
                           kind, DefaultChunkSize, failAt)
    IN IF MissingField(kind, data)
       THEN [suspended |-> FALSE, topics |-> tps,
             task |-> [kind |-> kind, topic_id |-> topic_id, ok |-> FALSE,
                       seen |-> 0]]
       ELSE [suspended |-> TRUE, topics |-> r.topics,
             task |-> [kind |-> kind, topic_id |-> topic_id, ok |-> r.ok,
                       seen |-> IF topic_id \in DOMAIN reg
                                THEN reg[topic_id].message_count ELSE 0]]

\* mutant: the count written is the one read before the await
ResumeRegistryStale(task, reg, now) ==
    IF task.ok /\ task.topic_id \in DOMAIN reg
    THEN [reg EXCEPT ![task.topic_id].message_count = task.seen + 1,
                     ![task.topic_id].last_activity = now]
    ELSE reg

\* the coroutine resumed: message_count += 1 and last_activity = now on the
\* registry as it is then, with no await in between; an exception from
\* submit_message skips the update
ResumeRegistry(task, reg, now) ==
    RegistryAfterSubmit(task.ok, reg, task.topic_id, now)

\* the transactions a submit_* call would issue for the data
EnvelopeTransactions(kind, priority, data) ==
    Transactions(Encode(JsonDumps(Envelope(kind, priority, data))), kind,
                 DefaultChunkSize)

RECURSIVE ProcessMessages(_, _)
\* the loop of query_consensus_history over the messages read: an entry per
\* parsed message that passes the filter; a payload that does not parse is
\* skipped; content.get on a parsed value that is no dict raises
ProcessMessages(messages, message_type) ==
    IF messages = <<>> THEN [ok |-> TRUE, messages |-> <<>>]
    ELSE LET m == messages[Len(messages)]
             rest == ProcessMessages(SubSeq(messages, 1, Len(messages) - 1),
                                     message_type)
             content == JsonLoads(m.contents)
         IN IF ~rest.ok THEN rest
            ELSE IF content.tag = "error" THEN rest
            ELSE IF content.tag # "dict" THEN [ok |-> FALSE, messages |-> <<>>]
            ELSE IF message_type # "" /\ content.v.type # message_type THEN rest
            ELSE [ok |-> TRUE,
                  messages |-> Append(rest.messages,
                      [consensus_timestamp |-> m.consensus_timestamp,
                       sequence_number |-> m.sequence_number,
                       message_type |-> content.v.type,
                       priority |-> content.v.priority,
                       data |-> [fields |-> content.v.fields,
                                 bulk |-> content.v.bulk],
                       running_hash |-> m.running_hash])]

\* ConsensusManager.query_consensus_history(topic_id, message_type, limit)
QueryConsensusHistory(tps, topic_id, message_type, limit) ==
    LET r == GetTopicMessages(tps, topic_id, limit)
    IN IF ~r.ok THEN [ok |-> FALSE, messages |-> <<>>]
       ELSE ProcessMessages(r.messages, message_type)

(***************************************************************************)
(* HCS10Agent: the agent protocol.                                         *)
(***************************************************************************)
\* HCS10Agent.__init__
NewAgent(registry_topic_id, message_handler) ==
    [status |-> "initializing", account_id |-> None, inbound_topic_id |-> None,
     outbound_topic_id |-> None, profile_topic_id |-> None, connections |-> <<>>,
     message_listeners |-> {}, registry_topic_id |-> registry_topic_id,
     message_handler |-> message_handler]

\* an envelope of the agent protocol with its operator_id,
\* f"{self.inbound_topic_id}@{self.account_id}"
AgentEnvelope(op, ag) ==
    [Tok("env") EXCEPT !.p = "hcs-10", !.op = op,
                       !.operator_topic = ag.inbound_topic_id,
                       !.operator_account = ag.account_id]

\* the calls initialize() makes, in order; the account is created only when
\* the agent has none
InitSteps(ag) ==
    (IF ag.account_id = None THEN <<"create_account">> ELSE <<>>)
    \o <<"create_topic:outbound", "create_topic:inbound", "create_topic:profile",
         "submit_message:profile">>

\* the profile _publish_profile submits
ProfileData(ag) ==
    [Tok("profile") EXCEPT !.inbound = ag.inbound_topic_id,
                           !.outbound = ag.outbound_topic_id]

\* _setup_message_listeners
SetupMessageListeners(ag) ==
    IF ag.message_handler
    THEN [ag EXCEPT !.message_listeners = @ \cup {ag.inbound_topic_id}]
    ELSE ag

\* mutant: a statement of the try block runs whatever happened before it
ReachedRegardless(ok_before) == TRUE

\* a statement of the try block is reached only if none before it raised
Reached(ok_before) == ok_before

\* mutant: the status is REGISTERED however initialize() ends
StatusAfterInitializeAlways(ok) == "registered"

\* self.status = AgentStatus.REGISTERED at the end of the try block,
\* self.status = AgentStatus.ERROR in the handler
StatusAfterInitialize(ok) == IF ok THEN "registered" ELSE "error"

\* HCS10Agent.initialize().  failAt = k > 0: the k-th call of InitSteps fails.
\* Every assignment made before the failure stays.
Initialize(ag, tps, acc, failAt) ==
    LET steps == InitSteps(ag)
        skip == IF ag.account_id = None THEN 0 ELSE 1
        \* does the step numbered k of the full sequence succeed
        Passes(k) == failAt # k - skip
        run1 == skip = 0
        ok1 == run1 => Passes(1)
        ag1 == IF run1 /\ ok1 THEN [ag EXCEPT !.account_id = acc] ELSE ag
        acc1 == IF run1 /\ ok1 THEN acc + 1 ELSE acc
        run2 == Reached(ok1)
        made2 == run2 /\ Passes(2)
        tps2 == IF made2 THEN NetCreateTopic(tps, "hcs-10:outbound", "operator") ELSE tps
        ag2 == IF made2 THEN [ag1 EXCEPT !.outbound_topic_id = Len(tps2)] ELSE ag1
        ok2 == ok1 /\ Passes(2)
        run3 == Reached(ok2)
        made3 == run3 /\ Passes(3)
        tps3 == IF made3 THEN NetCreateTopic(tps2, "hcs-10:inbound", "public") ELSE tps2
        ag3 == IF made3 THEN [ag2 EXCEPT !.inbound_topic_id = Len(tps3)] ELSE ag2
        ok3 == ok2 /\ Passes(3)
        run4 == Reached(ok3)
        made4 == run4 /\ Passes(4)
        tps4 == IF made4 THEN NetCreateTopic(tps3, "hcs-11:profile", "operator") ELSE tps3
        ag4 == IF made4 THEN [ag3 EXCEPT !.profile_topic_id = Len(tps4)] ELSE ag3
        ok4 == ok3 /\ Passes(4)
        run5 == Reached(ok4)
        r == SubmitMessage(tps4, ag4.profile_topic_id,
                           Encode(JsonDumps(ProfileData(ag4))), "hcs-11:profile:0",
                           DefaultChunkSize, IF Passes(5) THEN 0 ELSE 1)
        tps5 == IF run5 THEN r.topics ELSE tps4
        ok5 == ok4 /\ (run5 => r.ok)
        ag5 == IF Reached(ok5) THEN SetupMessageListeners(ag4) ELSE ag4
        Ran(run, k) == IF run THEN <<steps[k - skip]>> ELSE <<>>
    IN [ok |-> ok5,
        agent |-> [ag5 EXCEPT !.status = StatusAfterInitialize(ok5)],
        topics |-> tps5,
        nextAccount |-> acc1,
        trace |-> Ran(run1, 1) \o Ran(run2, 2) \o Ran(run3, 3) \o Ran(run4, 4)
                  \o Ran(run5, 5)]

\* HCS10Agent.register_in_registry(registry_topic_id)
RegisterInRegistry(ag, tps, registry_topic_id, failAt) ==
    LET rt == IF registry_topic_id = None THEN ag.registry_topic_id
              ELSE registry_topic_id
        msg == [Tok("env") EXCEPT !.p = "hcs-10", !.op = "register",
                                  !.fields = {"account_id"},
                                  !.account_id = ag.account_id]
        r == SubmitMessage(tps, rt, Encode(JsonDumps(msg)), "hcs-10:op:0:0",
                           DefaultChunkSize, failAt)
    IN IF rt = None
       THEN [ok |-> FALSE, cause |-> "no_registry_topic", calls |-> 0,
             topics |-> tps, topic |-> None]
       ELSE [ok |-> r.ok, cause |-> IF r.ok THEN "" ELSE "BlockchainError",
             calls |-> 1, topics |-> r.topics, topic |-> rt]

\* mutant: the caller's own registrations are not set apart
IsAnyAgentRegistration(content, own_account_id) ==
    /\ content.p = "hcs-10"
    /\ content.op = "register"

\* content.get("p") == "hcs-10" and content.get("op") == "register" and
\* content.get("account_id") != self.account_id
IsOtherAgentRegistration(content, own_account_id) ==
    /\ content.p = "hcs-10"
    /\ content.op = "register"
    /\ content.account_id # own_account_id

RECURSIVE CollectAgents(_, _)
\* the loop of discover_agents over the messages read.  A payload that does
\* not parse is skipped; content.get on a parsed value that is no dict and
\* content["account_id"] on a dict without that key raise.
CollectAgents(messages, own_account_id) ==
    IF messages = <<>> THEN [ok |-> TRUE, agents |-> <<>>]
    ELSE LET m == messages[Len(messages)]
             rest == CollectAgents(SubSeq(messages, 1, Len(messages) - 1),
                                   own_account_id)
             content == JsonLoads(m.contents)
         IN IF ~rest.ok THEN rest
            ELSE IF content.tag = "error" THEN rest
            ELSE IF content.tag # "dict" THEN [ok |-> FALSE, agents |-> <<>>]
            ELSE IF IsOtherAgentRegistration(content.v, own_account_id)
                 THEN IF "account_id" \notin content.v.fields
                      THEN [ok |-> FALSE, agents |-> <<>>]
                      ELSE [ok |-> TRUE,
                            agents |-> Append(rest.agents,
                                [account_id |-> content.v.account_id,
                                 timestamp |-> m.consensus_timestamp,
                                 sequence_number |-> m.sequence_number])]
            ELSE rest

\* HCS10Agent.discover_agents(registry_topic_id); get_topic_messages is
\* called with limit=100
DiscoverAgents(ag, tps, registry_topic_id, limit) ==
    LET rt == IF registry_topic_id = None THEN ag.registry_topic_id
              ELSE registry_topic_id
        r == GetTopicMessages(tps, rt, limit)
    IN IF rt = None THEN [ok |-> FALSE, calls |-> 0, agents |-> <<>>]
       ELSE IF ~r.ok THEN [ok |-> FALSE, calls |-> 1, agents |-> <<>>]
       ELSE [ok |-> CollectAgents(r.messages, ag.account_id).ok, calls |-> 1,
             agents |-> CollectAgents(r.messages, ag.account_id).agents]

\* _find_agent_inbound_topic: f"0.0.{hash(agent_id) % 1000000}", a topic id
\* computed from the agent id and the process's hash seed alone
FindAgentInboundTopic(hash_seed, agent_id) == hash_seed + agent_id

\* mutant: a request that was sent leaves a pending record for the target
RequestConnectionRecording(ag, tps, hash_seed, target_agent_id, failAt) ==
    LET target_inbound_topic == FindAgentInboundTopic(hash_seed, target_agent_id)
        r == SubmitMessage(tps, target_inbound_topic,
                           Encode(JsonDumps(AgentEnvelope("connection_request", ag))),
                           "hcs-10:op:3:1", DefaultChunkSize, failAt)
        pending == [connection_id |-> 0, remote_agent_id |-> target_agent_id,
                    topic_id |-> target_inbound_topic, status |-> "pending",
                    last_activity |-> None]
    IN [ok |-> r.ok, cause |-> IF r.ok THEN "" ELSE "BlockchainError",
        calls |-> 1, topics |-> r.topics, topic |-> target_inbound_topic,
        agent |-> IF r.ok
                  THEN [ag EXCEPT !.connections =
                          [q \in DOMAIN ag.connections \cup {target_agent_id} |->
                              IF q = target_agent_id THEN pending
                              ELSE ag.connections[q]]]
                  ELSE ag]

\* HCS10Agent.request_connection(target_agent_id)
RequestConnection(ag, tps, hash_seed, target_agent_id, failAt) ==
    LET target_inbound_topic == FindAgentInboundTopic(hash_seed, target_agent_id)
        r == SubmitMessage(tps, target_inbound_topic,
                           Encode(JsonDumps(AgentEnvelope("connection_request", ag))),
                           "hcs-10:op:3:1", DefaultChunkSize, failAt)
    IN [ok |-> r.ok, cause |-> IF r.ok THEN "" ELSE "BlockchainError",
        calls |-> 1, topics |-> r.topics, topic |-> target_inbound_topic,
        agent |-> ag]

\* mutant: a record already held for the requester is kept
KeepFirstConnection(conns, requesting_agent_id, connection) ==
    IF requesting_agent_id \in DOMAIN conns THEN conns
    ELSE [r \in DOMAIN conns \cup {requesting_agent_id} |->
            IF r = requesting_agent_id THEN connection ELSE conns[r]]

\* self.connections[requesting_agent_id] = connection
StoreConnection(conns, requesting_agent_id, connection) ==
    [r \in DOMAIN conns \cup {requesting_agent_id} |->
        IF r = requesting_agent_id THEN connection ELSE conns[r]]

\* mutant: the record names the topic before the one just created
StaleConnection(connection_id, requesting_agent_id, connection_topic_id) ==
    [connection_id |-> connection_id,
     remote_agent_id |-> requesting_agent_id,
     topic_id |-> connection_topic_id - 1,
     status |-> "active", last_activity |-> None]

\* connection = Connection(connection_id=..., remote_agent_id=...,
\* topic_id=connection_topic_id, status="active", ...)
NewConnection(connection_id, requesting_agent_id, connection_topic_id) ==
    [connection_id |-> connection_id,
     remote_agent_id |-> requesting_agent_id,
     topic_id |-> connection_topic_id,
     status |-> "active", last_activity |-> None]

\* mutant: connection_created is sent although the topic creation failed
AnnouncedAfterFailedCreation(ag, tps, requesting_inbound_topic, created) ==
    [ok |-> FALSE, cause |-> "BlockchainError",
     trace |-> <<"create_topic", "submit_message">>,
     topics |-> SubmitMessage(tps, requesting_inbound_topic,
                              Encode(JsonDumps(created)), "hcs-10:op:4:1",
                              DefaultChunkSize, 0).topics,
     topic |-> None, agent |-> ag]

\* create_connection when create_topic raises: the exception leaves the try
\* block, nothing after the call is executed
AfterFailedCreation(ag, tps, requesting_inbound_topic, created) ==
    [ok |-> FALSE, cause |-> "BlockchainError", trace |-> <<"create_topic">>,
     topics |-> tps, topic |-> None, agent |-> ag]

\* mutant: the record is stored before connection_created is appended
StoredBeforeAnnouncement(ag, tps, connection) ==
    [ok |-> FALSE, cause |-> "BlockchainError",
     trace |-> <<"create_topic", "submit_message">>,
     topics |-> tps, topic |-> connection.topic_id,
     agent |-> [ag EXCEPT !.connections =
                    StoreConnection(@, connection.remote_agent_id, connection)]]

\* create_connection when the append of connection_created raises: the
\* connection topic exists on the network (tps), the exception leaves the
\* try block before the record is built and stored
AfterFailedAnnouncement(ag, tps, connection) ==
    [ok |-> FALSE, cause |-> "BlockchainError",
     trace |-> <<"create_topic", "submit_message">>,
     topics |-> tps, topic |-> connection.topic_id, agent |-> ag]

\* HCS10Agent.create_connection(requesting_agent_id, requesting_inbound_topic)
\* failAt = 1: the creation of the connection topic fails; failAt = 2: the
\* append of connection_created fails; failAt = 3: the threshold key cannot
\* be built (getPublicKey raises), before any call to the network
CreateConnection(ag, tps, requesting_agent_id, requesting_inbound_topic, connection_id, failAt) ==
    LET tps1 == NetCreateTopic(tps, "hcs-10:connection", "threshold")
        connection_topic_id == Len(tps1)
        created == [AgentEnvelope("connection_created", ag) EXCEPT
                        !.connection_topic_id = connection_topic_id,
                        !.connected_account_id = requesting_agent_id,
                        !.connection_id = connection_id]
        r == SubmitMessage(tps1, requesting_inbound_topic,
                           Encode(JsonDumps(created)), "hcs-10:op:4:1",
                           DefaultChunkSize, IF failAt = 2 THEN 1 ELSE 0)
        connection == NewConnection(connection_id, requesting_agent_id,
                                    connection_topic_id)
    IN IF failAt = 3
       THEN [ok |-> FALSE, cause |-> "BlockchainError", trace |-> <<>>,
             topics |-> tps, topic |-> None, agent |-> ag]
       ELSE IF failAt = 1
       THEN AfterFailedCreation(ag, tps, requesting_inbound_topic, created)
       ELSE IF ~r.ok
       THEN AfterFailedAnnouncement(ag, r.topics, connection)
       ELSE [ok |-> TRUE, cause |-> "",
             trace |-> <<"create_topic", "submit_message">>,
             topics |-> r.topics, topic |-> connection_topic_id,
             agent |-> [ag EXCEPT !.connections =
                            StoreConnection(@, requesting_agent_id, connection)]]

NoConnection ==
    [connection_id |-> 0, remote_agent_id |-> 0, topic_id |-> None,
     status |-> "", last_activity |-> None]

\* mutant: the guard looks at the whole map, not at the target's record
HasConnectionIfAny(ag, target_agent_id) == DOMAIN ag.connections # {}

\* connection = self.connections.get(target_agent_id); if not connection: raise
HasConnection(ag, target_agent_id) == target_agent_id \in DOMAIN ag.connections

ConnectionOf(ag, target_agent_id) ==
    IF target_agent_id \in DOMAIN ag.connections
    THEN ag.connections[target_agent_id] ELSE NoConnection

\* connection.last_activity = datetime.utcnow()
Touch(ag, target_agent_id, now) ==
    IF target_agent_id \in DOMAIN ag.connections
    THEN [ag EXCEPT !.connections[target_agent_id].last_activity = now]
    ELSE ag

\* HCS10Agent.send_message(target_agent_id, message_data)
SendMessage(ag, tps, now, target_agent_id, failAt) ==
    LET connection == ConnectionOf(ag, target_agent_id)
        r == SubmitMessage(tps, connection.topic_id,
                           Encode(JsonDumps(AgentEnvelope("message", ag))),
                           "hcs-10:op:6:3", DefaultChunkSize, failAt)
    IN IF ~HasConnection(ag, target_agent_id)
       THEN [ok |-> FALSE, cause |-> "no_active_connection", calls |-> 0,
             topics |-> tps, topic |-> None, agent |-> ag]
       ELSE [ok |-> r.ok, cause |-> IF r.ok THEN "" ELSE "BlockchainError",
             calls |-> 1, topics |-> r.topics, topic |-> connection.topic_id,
             agent |-> IF r.ok THEN Touch(ag, target_agent_id, now) ELSE ag]

\* max(values, default=default)
MaxOr(values, default) ==
    IF values = {} THEN default
    ELSE CHOOSE v \in values : \A w \in values : w <= v

\* mutant: the time of the call is reported whatever the connections hold
NowAsLastActivity(conns, now) == now

\* max([c.last_activity for c in self.connections.values() if c.last_activity],
\*     default=datetime.utcnow())
LastActivity(conns, now) ==
    MaxOr({conns[r].last_activity : r \in {q \in DOMAIN conns :
                                              conns[q].last_activity # None}},
          now)

\* HCS10Agent.get_agent_status()
GetAgentStatus(ag, now) ==
    [agent_id |-> ag.account_id,
     status |-> ag.status,
     topics |-> [inbound |-> ag.inbound_topic_id,
                 outbound |-> ag.outbound_topic_id,
                 profile |-> ag.profile_topic_id],
     connections |->
        [active |-> Cardinality({r \in DOMAIN ag.connections :
                                    ag.connections[r].status = "active"}),
         total |-> Cardinality(DOMAIN ag.connections)],
     last_activity |-> LastActivity(ag.connections, now)]

\* HCS10Agent.send_transaction_request(target_agent_id, transaction_data)
SendTransactionRequest(ag, tps, now, target_agent_id, failAt) ==
    LET connection == ConnectionOf(ag, target_agent_id)
        r == SubmitMessage(tps, connection.topic_id,
                           Encode(JsonDumps(AgentEnvelope("transaction", ag))),
                           "hcs-10:op:7:3", DefaultChunkSize, failAt)
    IN IF ~HasConnection(ag, target_agent_id)
       THEN [ok |-> FALSE, cause |-> "no_active_connection", calls |-> 0,
             topics |-> tps, topic |-> None, agent |-> ag]
       ELSE [ok |-> r.ok, cause |-> IF r.ok THEN "" ELSE "BlockchainError",
             calls |-> 1, topics |-> r.topics, topic |-> connection.topic_id,
             agent |-> ag]

(***************************************************************************)
(* Specification of the Log Client alone: one payload, drawn at the start, *)
(* is appended with any chunk size and memo, and the topic is read back.   *)
(***************************************************************************)
SeqsUpTo(S, n) == UNION {[1..k -> S] : k \in 0..n}

LogPayloads == SeqsUpTo(RawBytes, MaxLen)
LogMemos == {"", "note"}
LogChunkSizes == 1..MaxChunk

LogInit ==
    /\ topics = <<>>
    /\ nextAccount = 1
    /\ clock = 1
    /\ topic_registry = <<>>
    /\ confirmed = <<>>
    /\ agents = <<>>
    /\ \E b \in LogPayloads : input = [Input0 EXCEPT !.payload = b]
    /\ subs = Subs0
    /\ tasks = <<>>
    /\ last = Last0

LogFrame ==
    UNCHANGED <<nextAccount, clock, topic_registry, confirmed, agents, subs, tasks, input>>

\* HCSService.create_topic
LogCreateTopic ==
    /\ Len(topics) < MaxLogTopics
    /\ \E ok \in BOOLEAN, public \in BOOLEAN :
        /\ topics' = IF ok
                     THEN NetCreateTopic(topics, "memo",
                                         IF public THEN "public" ELSE "operator")
                     ELSE topics
        /\ last' = [Last0 EXCEPT !.op = "create_topic", !.ok = ok,
                        !.error = IF ok THEN "" ELSE "BlockchainError",
                        !.topic = IF ok THEN Len(topics) + 1 ELSE None,
                        !.calls = 1, !.txs = 1]
    /\ LogFrame

\* HCSService.submit_message(topic_id, message, memo, chunk_size)
LogSubmitMessage ==
    \E t \in 1..MaxLogTopics, memo \in LogMemos, cs \in LogChunkSizes :
        LET n == Len(Transactions(input.payload, memo, cs))
        IN \E failAt \in 0..n :
            LET r == SubmitMessage(topics, t, input.payload, memo, cs, failAt)
            IN /\ TopicExists(topics, t) => Len(topics[t].messages) + n <= MaxLogMsgs
               /\ topics' = r.topics
               /\ last' = [Last0 EXCEPT !.op = "submit_message", !.ok = r.ok,
                               !.error = r.error, !.topic = t, !.calls = 1,
                               !.txs = r.txs, !.memo = memo, !.chunk_size = cs,
                               !.chunked = r.chunked, !.failAt = failAt,
                               !.result = ResultOf(r)]
               /\ LogFrame

\* HCSService.get_topic_messages(topic_id)
LogGetTopicMessages ==
    \E t \in 1..MaxLogTopics :
        LET r == GetTopicMessages(topics, t, MaxLogMsgs)
        IN /\ last' = [Last0 EXCEPT !.op = "get_topic_messages", !.ok = r.ok,
                           !.error = IF r.ok THEN "" ELSE "BlockchainError",
                           !.topic = t, !.calls = 1, !.out = r.messages]
           /\ UNCHANGED topics
           /\ LogFrame

LogNext == LogCreateTopic \/ LogSubmitMessage \/ LogGetTopicMessages

SpecLog == LogInit /\ [][LogNext]_vars

(***************************************************************************)
(* Claims about the Log Client (checked under SpecLog).                    *)
(***************************************************************************)
\* the messages read back from the topic of the last append that carry the
\* sequence numbers the append returned for its chunks, in chunk order
ChunksReadBack ==
    LET r == GetTopicMessages(topics, last.topic, Len(topics[last.topic].messages))
    IN SelectSeq(r.messages,
                 LAMBDA m : m.sequence_number \in Range(last.result.sequence_numbers))

\* C5: for every payload longer than the chunk threshold, a chunked append
\* followed by reading the topic and concatenating the chunks of that append
\* in chunk order yields exactly the original payload bytes, and every chunk
\* read is correlated by the same initial_transaction_id, the transaction id
\* of the first chunk.
C5_ChunkedRoundTrip ==
    (last.op = "submit_message" /\ last.ok /\ last.chunked)
        => /\ Encode(Flatten([i \in DOMAIN ChunksReadBack |->
                                ChunksReadBack[i].contents])) = input.payload
           /\ \A i \in DOMAIN ChunksReadBack :
                ChunksReadBack[i].chunk_info.initial_transaction_id
                    = last.result.initial_transaction_id
\* the payloads of the transactions a step appended to the topic of its
\* append, in the order of their sequence numbers
SentInStep ==
    LET t == last'.topic
        before == Len(topics[t].messages)
    IN [i \in 1..(Len(topics'[t].messages) - before) |->
            topics'[t].messages[before + i].contents]

MemosInStep ==
    LET t == last'.topic
        before == Len(topics[t].messages)
    IN [i \in 1..(Len(topics'[t].messages) - before) |->
            topics'[t].messages[before + i].memo]

\* C26: in every chunked append, with or without a memo of the caller, the
\* memo of the i-th transaction carries the pair (i, total_chunks), where
\* total_chunks is the number of chunks of the append.
C26_ChunkMemoCarriesIndex ==
    [][(last'.op = "submit_message" /\ last'.ok /\ last'.chunked)
        => \A i \in DOMAIN MemosInStep :
            /\ MemosInStep[i].chunk_index = i
            /\ MemosInStep[i].total_chunks = Len(MemosInStep)]_vars

\* C28: a chunked append is not atomic: when the transaction of chunk k,
\* k >= 2, fails, the topic has gained chunks 1..k-1 and nothing else, no
\* transaction follows the failed one, nothing is taken back, and the
\* append fails with the error of the network.
C28_ChunkedAppendIsNotAtomic ==
    [][(/\ last'.op = "submit_message" /\ last'.chunked
        /\ last'.failAt >= 2
        /\ TopicExists(topics, last'.topic))
        => LET k == last'.failAt
               T == last'.chunk_size
               t == last'.topic
           IN /\ ~last'.ok
              /\ last'.error = "BlockchainError"
              /\ last'.txs = k
              /\ Len(SentInStep) = k - 1
              /\ \A i \in 1..(k - 1) :
                    SentInStep[i] = SubSeq(input.payload, (i - 1) * T + 1, i * T)
              /\ SubSeq(topics'[t].messages, 1, Len(topics[t].messages))
                    = topics[t].messages
              /\ Len(topics') = Len(topics)
              /\ \A u \in DOMAIN topics : u # t => topics'[u] = topics[u]]_vars

\* C28 witness: the third transaction of a three-chunk append failed: the
\* topic holds the first two chunks of the payload and not the third
C28_Witness ==
    /\ last.op = "submit_message" /\ ~last.ok /\ last.chunked
    /\ last.failAt = 3 /\ last.chunk_size = 1 /\ Len(input.payload) = 3
    /\ last.topic \in DOMAIN topics
    /\ Len(topics[last.topic].messages) = 2
    /\ topics[last.topic].messages[1].contents = <<input.payload[1]>>
    /\ topics[last.topic].messages[2].contents = <<input.payload[2]>>

(***************************************************************************)
(* Specification of the ConsensusManager: one business data object, drawn  *)
(* at the start, is submitted through the typed operations to topics the   *)
(* manager created or that exist beside it, and the topics are queried.    *)
(***************************************************************************)
\* bulks around the chunk threshold: the envelope fits in one transaction,
\* is one token too long, or is long enough for a chunk of digits only
Bulks == {0, DefaultChunkSize - 3, 2 * DefaultChunkSize - 3}

FullData(kind) == Range(RequiredFields(kind))

\* the data objects tried: for every operation its complete data and its data
\* with one required field left out; complete data with bulk and with another
\* priority for the first operation
CMInputs ==
    {[Input0 EXCEPT !.data = [fields |-> FullData(k), bulk |-> 0],
                    !.priority = "medium"] : k \in SubmitKinds}
    \cup
    {[Input0 EXCEPT !.data = [fields |-> FullData("waste_submission"), bulk |-> b],
                    !.priority = q] : b \in Bulks, q \in {"medium", "critical"}}
    \cup
    UNION {{[Input0 EXCEPT !.data = [fields |-> FullData(k) \ {f}, bulk |-> 0],
                           !.priority = "high"] : f \in FullData(k)} :
           k \in SubmitKinds}

\* the topic types and filters tried
CMTopicTypes == {"waste_submissions", "audit_trail"}
CMFilters == {"", "waste_submission"}

CMInit ==
    /\ topics = <<>>
    /\ nextAccount = 1
    /\ clock = 1
    /\ topic_registry = <<>>
    /\ confirmed = [t \in 1..MaxCMTopics |-> 0]
    /\ agents = <<>>
    /\ input \in CMInputs
    /\ subs = Subs0
    /\ tasks = <<>>
    /\ last = Last0

CMFrame == UNCHANGED <<nextAccount, agents, subs, tasks, input>>

\* ConsensusManager.create_consensus_topic(topic_type, description)
create_consensus_topic ==
    /\ Len(topics) < MaxCMTopics
    /\ clock <= MaxCMOps
    /\ \E topic_type \in CMTopicTypes, ok \in BOOLEAN :
        /\ topics' = IF ok THEN NetCreateTopic(topics, topic_type, "public")
                     ELSE topics
        /\ topic_registry' =
              IF ok THEN Register(topic_registry, Len(topics) + 1, topic_type)
              ELSE topic_registry
        /\ clock' = IF ok THEN clock + 1 ELSE clock
        /\ last' = [Last0 EXCEPT !.op = "create_consensus_topic", !.ok = ok,
                        !.error = IF ok THEN "" ELSE "BlockchainError",
                        !.cause = IF ok THEN "" ELSE "BlockchainError",
                        !.topic = IF ok THEN Len(topics) + 1 ELSE None,
                        !.calls = 1, !.txs = 1]
    /\ UNCHANGED confirmed
    /\ CMFrame

\* a topic created on the network without the manager (HCSService.create_topic)
CreateForeignTopic ==
    /\ Len(topics) < MaxCMTopics
    /\ topics' = NetCreateTopic(topics, "", "public")
    /\ last' = [Last0 EXCEPT !.op = "create_topic", !.topic = Len(topics) + 1,
                    !.calls = 1, !.txs = 1]
    /\ UNCHANGED <<clock, topic_registry, confirmed>>
    /\ CMFrame

\* a call of the submit_* operation of `kind` with the caller's data
Submit(kind) ==
    /\ clock <= MaxCMOps
    /\ \E t \in 1..MaxCMTopics :
        LET n == Len(EnvelopeTransactions(kind, input.priority, input.data))
        IN \E failAt \in 0..n :
            LET r == SubmitTyped(kind, topic_registry, topics, clock, t,
                                 input.data, input.priority, failAt)
            IN /\ TopicExists(topics, t)
                    => Len(topics[t].messages) + n <= MaxCMMsgs
               /\ MissingField(kind, input.data) => failAt = 0
               /\ topics' = r.topics
               /\ topic_registry' = r.registry
               /\ confirmed' = IF r.ok THEN [confirmed EXCEPT ![t] = @ + 1]
                               ELSE confirmed
               /\ clock' = IF r.ok THEN clock + 1 ELSE clock
               /\ last' = [Last0 EXCEPT !.op = "submit", !.kind = kind, !.ok = r.ok,
                               !.error = r.error, !.cause = r.cause,
                               !.text = r.text, !.topic = t,
                               !.calls = r.calls, !.txs = r.txs,
                               !.chunked = r.chunked, !.failAt = failAt,
                               !.result = r.result, !.time = clock]
    /\ CMFrame

submit_waste_submission == Submit("waste_submission")
submit_carbon_verification == Submit("carbon_verification")
submit_recycling_event == Submit("recycling_event")
submit_audit_record == Submit("audit_record")
submit_smart_bin_data == Submit("smart_bin_data")

\* ConsensusManager.query_consensus_history(topic_id, message_type)
query_consensus_history ==
    /\ \E t \in 1..MaxCMTopics, message_type \in CMFilters :
        LET r == QueryConsensusHistory(topics, t, message_type, MaxCMMsgs)
        IN last' = [Last0 EXCEPT !.op = "query_consensus_history", !.ok = r.ok,
                        !.error = IF r.ok THEN "" ELSE "BlockchainError",
                        !.cause = IF r.ok THEN "" ELSE "BlockchainError",
                        !.topic = t, !.filter = message_type, !.calls = 1,
                        !.out = r.messages]
    /\ UNCHANGED <<topics, clock, topic_registry, confirmed>>
    /\ CMFrame

CMNext ==
    \/ create_consensus_topic
    \/ CreateForeignTopic
    \/ submit_waste_submission
    \/ submit_carbon_verification
    \/ submit_recycling_event
    \/ submit_audit_record
    \/ submit_smart_bin_data
    \/ query_consensus_history

SpecCM == CMInit /\ [][CMNext]_vars

(***************************************************************************)
(* Claims about the ConsensusManager (checked under SpecCM).               *)
(***************************************************************************)
\* C1: a typed submit operation called with a data object that lacks a
\* required field fails with a ValidationError (the kind the caller
\* observes), calls submit_message zero times and leaves the topic registry
\* unchanged.
C1_MissingFieldRaisesValidationError ==
    [][(last'.op = "submit" /\ MissingField(last'.kind, input'.data))
        => /\ ~last'.ok
           /\ last'.error = "ValidationError"
           /\ last'.calls = 0
           /\ topic_registry' = topic_registry]_vars

\* C4: for every topic of the registry, message_count equals the number of
\* submit_* calls against the topic whose append returned successfully;
\* failed submits and queries never change it.
C4_MessageCountIsConfirmedAppends ==
    \A t \in DOMAIN topic_registry :
        topic_registry[t].message_count = confirmed[t]

\* C4 witness: a submit whose append failed, on a registered topic that
\* already counts a confirmed append
C4_Witness ==
    /\ last.op = "submit" /\ ~last.ok /\ last.calls = 1
    /\ last.topic \in DOMAIN topic_registry
    /\ topic_registry[last.topic].message_count >= 1

\* C6: a successful submit_* of a valid data object of any serialized size,
\* followed by query_consensus_history on the same topic, returns a message
\* whose data equals the submitted data and whose type is the declared type
\* of the operation.
C6_SubmitThenQueryReturnsData ==
    (last.op = "submit" /\ last.ok)
        => LET q == QueryConsensusHistory(topics, last.topic, "",
                                          Len(topics[last.topic].messages))
           IN /\ q.ok
              /\ \E i \in DOMAIN q.messages :
                    /\ q.messages[i].data = input.data
                    /\ q.messages[i].message_type = last.kind

RECURSIVE WellFormedEnvelopes(_, _)
\* the entries for the messages whose payload is a well-formed envelope of
\* the type asked for, in the order of the messages
WellFormedEnvelopes(ms, message_type) ==
    IF ms = <<>> THEN <<>>
    ELSE LET m == ms[Len(ms)]
             rest == WellFormedEnvelopes(SubSeq(ms, 1, Len(ms) - 1), message_type)
             content == JsonLoads(Decode(m.contents))
         IN IF /\ WellFormedUTF8(m.contents)
               /\ content.tag = "dict"
               /\ content.v.k = "envelope"
               /\ (message_type = "" \/ content.v.type = message_type)
            THEN Append(rest, [consensus_timestamp |-> m.sequence_number,
                               sequence_number |-> m.sequence_number,
                               message_type |-> content.v.type,
                               priority |-> content.v.priority,
                               data |-> [fields |-> content.v.fields,
                                         bulk |-> content.v.bulk],
                               running_hash |-> m.sequence_number])
            ELSE rest

\* C15: query_consensus_history on a topic returns, in sequence order,
\* exactly the messages whose payload is a well-formed envelope of the type
\* asked for (of any type when no filter is given), each with its sequence
\* number and running hash; a payload that is no well-formed envelope is
\* skipped and never makes the query fail.
C15_QuerySkipsMalformedPayloads ==
    (last.op = "query_consensus_history" /\ TopicExists(topics, last.topic))
        => /\ last.ok
           /\ last.out = WellFormedEnvelopes(topics[last.topic].messages,
                                             last.filter)

\* the business type an error message speaks of
TypeNamedBy(text) ==
    CASE text = "Waste submission" -> "waste_submission"
      [] text = "Carbon verification" -> "carbon_verification"
      [] text = "Recycling event" -> "recycling_event"
      [] text = "Audit record" -> "audit_record"
      [] text = "Smart bin data" -> "smart_bin_data"
      [] OTHER -> ""

\* C16: when the append of the Log Client fails during a typed submit_*
\* operation, the operation has called submit_message once and no more, no
\* transaction follows the one that failed, the caller gets one
\* BlockchainError whose message names the business type of the operation,
\* and the registry entry of the topic (message_count, last_activity) is as
\* before.
C16_FailedAppendIsNotRetried ==
    [][(/\ last'.op = "submit"
        /\ ~MissingField(last'.kind, input.data)
        /\ (last'.failAt # 0 \/ ~TopicExists(topics, last'.topic)))
        => /\ ~last'.ok
           /\ last'.calls = 1
           /\ last'.txs = (IF TopicExists(topics, last'.topic)
                           THEN last'.failAt ELSE 1)
           /\ Len(topics') = Len(topics)
           /\ \A t \in DOMAIN topics :
                Len(topics'[t].messages) =
                    Len(topics[t].messages)
                    + (IF t = last'.topic THEN last'.failAt - 1 ELSE 0)
           /\ last'.error = "BlockchainError"
           /\ TypeNamedBy(last'.text) = last'.kind
           /\ topic_registry' = topic_registry]_vars

\* C16 witness: a chunked submit on a registered topic whose second
\* transaction failed: the first chunk is on the topic, the registry entry
\* still counts nothing
C16_Witness ==
    /\ last.op = "submit" /\ ~last.ok /\ last.chunked /\ last.failAt = 2
    /\ last.topic \in DOMAIN topic_registry
    /\ Len(topics[last.topic].messages) = 1
    /\ topic_registry[last.topic].message_count = 0

(***************************************************************************)
(* Specifications of the agent protocol over a network that holds the     *)
(* registry topic: the life cycle of one agent, and the connections of two *)
(* agents.                                                                 *)
(***************************************************************************)
AgentNames == {"A", "B"}

\* the registry topic is the first topic of the network
RegistryTopic == Len(NetCreateTopic(<<>>, "registry", "public"))

MinConnectionId == 10000
MaxConnectionId == 99999
\* random.randint(10000, 99999): the ends of the range
ConnectionIds == {MinConnectionId, MaxConnectionId}

\* account ids a caller may name: as many as there are agents, so that one
\* of them is no agent's until both have an account
TargetIds == 1..Cardinality(AgentNames)

\* the account id of a party that is none of the agents: the last of
\* TargetIds, which no agent gets while there is one agent only
ForeignAccount == Cardinality(AgentNames)

\* the topics of the network: the registry topic, those the agents own and
\* the connection topics
TopicLimit == 1 + MaxAgentTopics * Cardinality(AgentNames) + MaxConnections

\* the process's hash seed: _find_agent_inbound_topic lands on a low topic
\* id or on one that does not exist
HashSeeds == {0, TopicLimit}

\* what other parties append to the public registry topic
ForeignEntries ==
    {<<ByteLead>>,
     <<Digit>>,
     JsonDumps([Tok("env") EXCEPT !.p = "hcs-10", !.op = "register"]),
     JsonDumps([Tok("env") EXCEPT !.p = "hcs-10", !.op = "register",
                                  !.fields = {"account_id"},
                                  !.account_id = Cardinality(AgentNames) + 1])}

AgentInit ==
    /\ topics = NetCreateTopic(<<>>, "registry", "public")
    /\ nextAccount = 1
    /\ clock = 1
    /\ topic_registry = <<>>
    /\ confirmed = <<>>
    /\ \E rt \in {None, RegistryTopic} :
            agents = [a \in {"A"} |-> NewAgent(rt, TRUE)]
    /\ input = Input0
    /\ subs = Subs0
    /\ tasks = <<>>
    /\ last = Last0

\* two agents, A constructed with the registry topic and a message handler,
\* B with neither, in a process with either hash seed over a network that
\* does not fail
HandshakeInit ==
    /\ topics = NetCreateTopic(<<>>, "registry", "public")
    /\ nextAccount = 1
    /\ clock = 1
    /\ topic_registry = <<>>
    /\ confirmed = <<>>
    /\ agents = [a \in AgentNames |->
                    IF a = "A" THEN NewAgent(RegistryTopic, TRUE)
                    ELSE NewAgent(None, FALSE)]
    /\ \E h \in HashSeeds :
            input = [Input0 EXCEPT !.hash_seed = h, !.net = "reliable"]
    /\ subs = Subs0
    /\ tasks = <<>>
    /\ last = Last0

\* one agent, A, over a network that may fail and that holds the registry
\* topic and the inbound topic of another party
ConnectionsInit ==
    /\ topics = NetCreateTopic(NetCreateTopic(<<>>, "registry", "public"),
                               "foreign:inbound", "public")
    /\ nextAccount = 1
    /\ clock = 1
    /\ topic_registry = <<>>
    /\ confirmed = <<>>
    /\ agents = [a \in {"A"} |-> NewAgent(RegistryTopic, TRUE)]
    /\ input = Input0
    /\ subs = Subs0
    /\ tasks = <<>>
    /\ last = Last0

AgentFrame == UNCHANGED <<topic_registry, confirmed, subs, tasks, input>>

RoomFor(t, max) == TopicExists(topics, t) => Len(topics[t].messages) < max

ConnectionTopics == {t \in DOMAIN topics : topics[t].memo = "hcs-10:connection"}

\* the network call of an operation that fails, of n calls (0: none fails)
Failures(n) == IF input.net = "reliable" THEN {0} ELSE 0..n

\* a.initialize()
initialize ==
    /\ \E a \in DOMAIN agents :
        \E failAt \in Failures(Len(InitSteps(agents[a]))) :
            LET r == Initialize(agents[a], topics, nextAccount, failAt)
            IN /\ Len(r.topics) - Cardinality(ConnectionTopics)
                    <= 1 + MaxAgentTopics * Cardinality(DOMAIN agents)
               /\ topics' = r.topics
               /\ nextAccount' = r.nextAccount
               /\ agents' = [agents EXCEPT ![a] = r.agent]
               /\ last' = [Last0 EXCEPT !.op = "initialize", !.agent = a,
                               !.ok = r.ok,
                               !.error = IF r.ok THEN "" ELSE "BlockchainError",
                               !.cause = IF r.ok THEN "" ELSE "initialization",
                               !.failAt = failAt, !.calls = Len(r.trace),
                               !.trace = r.trace]
    /\ UNCHANGED clock
    /\ AgentFrame

\* a.register_in_registry(registry_topic_id)
register_in_registry ==
    /\ \E a \in DOMAIN agents, rt \in {None, RegistryTopic}, failAt \in Failures(1) :
        LET r == RegisterInRegistry(agents[a], topics, rt, failAt)
        IN /\ RoomFor(RegistryTopic, MaxAgentMsgs)
           /\ r.calls = 0 => failAt = 0
           /\ topics' = r.topics
           /\ last' = [Last0 EXCEPT !.op = "register_in_registry", !.agent = a,
                           !.ok = r.ok,
                           !.error = IF r.ok THEN "" ELSE "BlockchainError",
                           !.cause = r.cause, !.calls = r.calls, !.topic = r.topic,
                           !.failAt = failAt]
    /\ UNCHANGED <<nextAccount, agents>>
    /\ UNCHANGED clock
    /\ AgentFrame

\* another party appends to the registry topic
ForeignRegistryAppend ==
    /\ RoomFor(RegistryTopic, MaxAgentMsgs)
    /\ \E e \in ForeignEntries :
        topics' = NetAppend(topics, RegistryTopic, e, NoMemo)
    /\ last' = [Last0 EXCEPT !.op = "foreign_append", !.topic = RegistryTopic]
    /\ UNCHANGED <<nextAccount, agents>>
    /\ UNCHANGED clock
    /\ AgentFrame

\* a.discover_agents(registry_topic_id)
discover_agents ==
    /\ \E a \in DOMAIN agents, rt \in {None, RegistryTopic} :
        LET r == DiscoverAgents(agents[a], topics, rt, MaxAgentMsgs)
        IN last' = [Last0 EXCEPT !.op = "discover_agents", !.agent = a,
                        !.ok = r.ok,
                        !.error = IF r.ok THEN "" ELSE "BlockchainError",
                        !.cause = IF r.ok THEN "" ELSE "BlockchainError",
                        !.calls = r.calls, !.out = r.agents]
    /\ UNCHANGED <<topics, nextAccount, clock, agents>>
    /\ AgentFrame

\* a.request_connection(target_agent_id)
request_connection ==
    /\ \E a \in DOMAIN agents, target \in TargetIds, failAt \in Failures(1) :
        LET r == RequestConnection(agents[a], topics, input.hash_seed, target, failAt)
        IN /\ RoomFor(r.topic, MaxInboxMsgs)
           /\ topics' = r.topics
           /\ agents' = [agents EXCEPT ![a] = r.agent]
           /\ last' = [Last0 EXCEPT !.op = "request_connection", !.agent = a,
                           !.target = target, !.ok = r.ok,
                           !.error = IF r.ok THEN "" ELSE "BlockchainError",
                           !.cause = r.cause, !.calls = r.calls, !.topic = r.topic,
                           !.failAt = failAt]
    /\ UNCHANGED nextAccount
    /\ UNCHANGED clock
    /\ AgentFrame

\* the requesters a connection can be created for: the agents, each named
\* by its account id and its inbound topic (None before initialize assigns
\* them), and the other party whose inbound topic the network holds
Requesters ==
    {[account_id |-> agents[b].account_id,
      inbound_topic_id |-> agents[b].inbound_topic_id] : b \in DOMAIN agents}
    \cup {[account_id |-> ForeignAccount, inbound_topic_id |-> t] :
             t \in {u \in DOMAIN topics : topics[u].memo = "foreign:inbound"}}

ConnectionLimit ==
    IF Cardinality(DOMAIN agents) = 1 THEN MaxOwnConnections ELSE MaxConnections

\* a.create_connection(requesting_agent_id, requesting_inbound_topic)
create_connection ==
    /\ Cardinality(ConnectionTopics) < ConnectionLimit
    /\ \E a \in DOMAIN agents, rq \in Requesters,
          id \in ConnectionIds, failAt \in Failures(3) :
        LET requester == rq.account_id
            r == CreateConnection(agents[a], topics, requester,
                                  rq.inbound_topic_id, id, failAt)
        IN /\ topics' = r.topics
           /\ agents' = [agents EXCEPT ![a] = r.agent]
           /\ last' = [Last0 EXCEPT !.op = "create_connection", !.agent = a,
                           !.target = requester, !.ok = r.ok,
                           !.error = IF r.ok THEN "" ELSE "BlockchainError",
                           !.cause = r.cause, !.calls = Len(r.trace),
                           !.trace = r.trace, !.topic = r.topic,
                           !.failAt = failAt]
    /\ UNCHANGED nextAccount
    /\ UNCHANGED clock
    /\ AgentFrame

\* a.send_message(target_agent_id, message_data)
send_message ==
    /\ clock <= MaxAgentClock
    /\ \E a \in DOMAIN agents, target \in TargetIds, failAt \in Failures(1) :
        LET r == SendMessage(agents[a], topics, clock, target, failAt)
        IN /\ RoomFor(r.topic, MaxSends)
           /\ r.calls = 0 => failAt = 0
           /\ topics' = r.topics
           /\ agents' = [agents EXCEPT ![a] = r.agent]
           /\ last' = [Last0 EXCEPT !.op = "send_message", !.agent = a,
                           !.target = target, !.ok = r.ok,
                           !.error = IF r.ok THEN "" ELSE "BlockchainError",
                           !.cause = r.cause, !.calls = r.calls, !.topic = r.topic,
                           !.failAt = failAt, !.time = clock]
           /\ clock' = IF r.ok THEN clock + 1 ELSE clock
    /\ UNCHANGED nextAccount
    /\ AgentFrame

\* a.send_transaction_request(target_agent_id, transaction_data)
send_transaction_request ==
    /\ \E a \in DOMAIN agents, target \in TargetIds, failAt \in Failures(1) :
        LET r == SendTransactionRequest(agents[a], topics, clock, target, failAt)
        IN /\ RoomFor(r.topic, MaxSends)
           /\ r.calls = 0 => failAt = 0
           /\ topics' = r.topics
           /\ agents' = [agents EXCEPT ![a] = r.agent]
           /\ last' = [Last0 EXCEPT !.op = "send_transaction_request", !.agent = a,
                           !.target = target, !.ok = r.ok,
                           !.error = IF r.ok THEN "" ELSE "BlockchainError",
                           !.cause = r.cause, !.calls = r.calls, !.topic = r.topic,
                           !.failAt = failAt, !.time = clock]
    /\ UNCHANGED nextAccount
    /\ UNCHANGED clock
    /\ AgentFrame

\* the life cycle of the agents and the registry
AgentNext ==
    \/ initialize
    \/ register_in_registry
    \/ ForeignRegistryAppend
    \/ discover_agents

SpecAgent == AgentInit /\ [][AgentNext]_vars

\* the agents and the connections between them
HandshakeNext ==
    \/ initialize
    \/ request_connection
    \/ create_connection
    \/ send_message
    \/ send_transaction_request

SpecHandshake == HandshakeInit /\ [][HandshakeNext]_vars

\* a.get_agent_status()
get_agent_status ==
    /\ \E a \in DOMAIN agents :
        last' = [Last0 EXCEPT !.op = "get_agent_status", !.agent = a,
                     !.snapshot = GetAgentStatus(agents[a], clock),
                     !.time = clock]
    /\ UNCHANGED <<topics, agents, clock, nextAccount>>
    /\ AgentFrame

\* one agent and its connections
ConnectionsNext ==
    \/ initialize
    \/ create_connection
    \/ send_message
    \/ send_transaction_request
    \/ get_agent_status

SpecConnections == ConnectionsInit /\ [][ConnectionsNext]_vars

(***************************************************************************)
(* Claims about one agent's life cycle and the registry (SpecAgent).       *)
(***************************************************************************)

\* the register envelopes on the registry topic that name account id
RegisteredAs(id) ==
    {i \in DOMAIN topics[RegistryTopic].messages :
        LET raw == topics[RegistryTopic].messages[i].contents
            content == IF WellFormedUTF8(raw) THEN JsonLoads(Decode(raw))
                       ELSE [tag |-> "error", v |-> Tok("none")]
        IN /\ content.tag = "dict"
           /\ content.v.op = "register"
           /\ "account_id" \in content.v.fields
           /\ content.v.account_id = id}

\* C3: the list discover_agents returns holds no entry whose account_id is
\* the caller's own account id, whatever the registry topic holds, the
\* caller's own register envelopes included.
C3_DiscoverExcludesCaller ==
    (last.op = "discover_agents" /\ last.ok)
        => \A i \in DOMAIN last.out :
               last.out[i].account_id # agents[last.agent].account_id

\* a discovery that returned an entry from a registry that also holds a
\* register envelope of the caller
C3_Witness ==
    /\ last.op = "discover_agents" /\ last.ok
    /\ Len(last.out) >= 1
    /\ agents[last.agent].account_id # None
    /\ RegisteredAs(agents[last.agent].account_id) # {}

RECURSIVE RegisterEntries(_, _)
\* the entries for the messages that are register envelopes of the agent
\* protocol naming an account other than `own`, in the order of the messages
RegisterEntries(ms, own) ==
    IF ms = <<>> THEN <<>>
    ELSE LET m == ms[Len(ms)]
             rest == RegisterEntries(SubSeq(ms, 1, Len(ms) - 1), own)
             content == JsonLoads(Decode(m.contents))
         IN IF /\ WellFormedUTF8(m.contents)
               /\ content.tag = "dict"
               /\ content.v.p = "hcs-10"
               /\ content.v.op = "register"
               /\ "account_id" \in content.v.fields
               /\ content.v.account_id # own
            THEN Append(rest, [account_id |-> content.v.account_id,
                               timestamp |-> m.sequence_number,
                               sequence_number |-> m.sequence_number])
            ELSE rest

\* C18: whatever the registry topic holds, a discover_agents that reads it
\* returns, in sequence order, exactly the register envelopes of the agent
\* protocol from other accounts; an entry that is malformed (a payload that
\* does not parse, one that is no envelope object, a register envelope
\* without an account id) is skipped and never makes the call fail.
C18_DiscoverSkipsMalformedEntries ==
    (last.op = "discover_agents" /\ last.calls = 1)
        => /\ last.ok
           /\ last.out = RegisterEntries(topics[RegistryTopic].messages,
                                         agents[last.agent].account_id)

\* C24: a topic id of an agent, once assigned, is never changed: no step
\* takes inbound_topic_id, outbound_topic_id or profile_topic_id from one
\* topic id to another, a further initialize() included.
C24_TopicIdsAreImmutable ==
    [][\A a \in DOMAIN agents :
        /\ agents[a].inbound_topic_id # None
            => agents'[a].inbound_topic_id = agents[a].inbound_topic_id
        /\ agents[a].outbound_topic_id # None
            => agents'[a].outbound_topic_id = agents[a].outbound_topic_id
        /\ agents[a].profile_topic_id # None
            => agents'[a].profile_topic_id = agents[a].profile_topic_id]_vars

\* the payload of the profile the agent published, as read from its profile
\* topic
HoldsProfile(ag) ==
    \E i \in DOMAIN topics[ag.profile_topic_id].messages :
        topics[ag.profile_topic_id].messages[i].contents
            = Encode(JsonDumps(ProfileData(ag)))

\* C9: an agent whose status is REGISTERED has an account id and its three
\* topics, each one created on the network for that purpose, and its profile
\* is on its profile topic; and the status goes from INITIALIZING to
\* REGISTERED only in an initialize() that made every call and succeeded.
C9_RegisteredMeansInitialized ==
    /\ [](\A a \in DOMAIN agents :
            agents[a].status = "registered"
                => /\ agents[a].account_id # None
                   /\ TopicExists(topics, agents[a].outbound_topic_id)
                   /\ topics[agents[a].outbound_topic_id].memo = "hcs-10:outbound"
                   /\ TopicExists(topics, agents[a].inbound_topic_id)
                   /\ topics[agents[a].inbound_topic_id].memo = "hcs-10:inbound"
                   /\ TopicExists(topics, agents[a].profile_topic_id)
                   /\ topics[agents[a].profile_topic_id].memo = "hcs-11:profile"
                   /\ HoldsProfile(agents[a]))
    /\ [][\A a \in DOMAIN agents :
            (agents[a].status = "initializing" /\ agents'[a].status = "registered")
                => /\ last'.op = "initialize" /\ last'.agent = a /\ last'.ok
                   /\ last'.trace = InitSteps(agents[a])]_vars

\* an agent registered by its first initialize()
C9_Witness ==
    /\ last.op = "initialize" /\ last.ok
    /\ agents[last.agent].status = "registered"

\* C10: when the k-th call of initialize() fails, the call raises the
\* initialization error, the status is ERROR, the calls made are the first k
\* of the sequence and no more, and the network holds only what the calls
\* before the k-th created.
C10_InitializeFailsFast ==
    [][(last'.op = "initialize" /\ last'.failAt > 0)
        => LET a == last'.agent
               steps == InitSteps(agents[a])
               k == last'.failAt
               created == {i \in 1..(k - 1) :
                              steps[i] \in {"create_topic:outbound",
                                            "create_topic:inbound",
                                            "create_topic:profile"}}
           IN /\ ~last'.ok
              /\ last'.error = "BlockchainError"
              /\ last'.cause = "initialization"
              /\ agents'[a].status = "error"
              /\ last'.trace = SubSeq(steps, 1, k)
              /\ Len(topics') = Len(topics) + Cardinality(created)
              /\ \A t \in DOMAIN topics : topics'[t] = topics[t]
              /\ \A t \in DOMAIN topics' \ DOMAIN topics :
                     topics'[t].messages = <<>>]_vars

\* an initialize() that failed at a call after the first and before the last
C10_Witness ==
    /\ last.op = "initialize" /\ ~last.ok
    /\ last.failAt > 1
    /\ last.calls = last.failAt
    /\ last.calls < Len(InitSteps(NewAgent(None, FALSE)))
    /\ agents[last.agent].status = "error"

\* C11: ERROR is terminal: once an agent's status is ERROR no operation on
\* it, a further initialize() included, changes the status.
C11_ErrorIsTerminal ==
    [][\A a \in DOMAIN agents :
        agents[a].status = "error" => agents'[a].status = "error"]_vars

(***************************************************************************)
(* Claims about the connections of two agents (SpecHandshake).             *)
(***************************************************************************)

\* C2: send_message and send_transaction_request to a target for which the
\* agent's connection map holds no record fail with the no-active-connection
\* error, call the network not once, and leave the connection map (and the
\* network) as they were.
C2_SendWithoutRecordFails ==
    [][(/\ last'.op \in {"send_message", "send_transaction_request"}
        /\ last'.target \notin DOMAIN agents[last'.agent].connections)
        => /\ ~last'.ok
           /\ last'.error = "BlockchainError"
           /\ last'.cause = "no_active_connection"
           /\ last'.calls = 0
           /\ agents' = agents
           /\ topics' = topics]_vars

\* a send that failed so, by an agent that holds a record for another target
C2_Witness ==
    /\ last.op \in {"send_message", "send_transaction_request"}
    /\ ~last.ok /\ last.cause = "no_active_connection"
    /\ last.target \notin DOMAIN agents[last.agent].connections
    /\ DOMAIN agents[last.agent].connections # {}

\* the topic holds an envelope of the agent protocol with this op from this
\* account
HoldsEnvelope(t, op, account_id) ==
    /\ TopicExists(topics, t)
    /\ \E i \in DOMAIN topics[t].messages :
        LET content == JsonLoads(Decode(topics[t].messages[i].contents))
        IN /\ content.tag = "dict"
           /\ content.v.op = op
           /\ content.v.operator_account = account_id

\* handshake steps 1 and 2 between initiator i and target t: the request of
\* i is on the topic request_connection appends to, and t holds the record
\* of the connection whose topic it announced on the inbound topic of i
HandshakeDone(i, t) ==
    /\ agents[i].status = "registered" /\ agents[t].status = "registered"
    /\ HoldsEnvelope(FindAgentInboundTopic(input.hash_seed, agents[t].account_id),
                     "connection_request", agents[i].account_id)
    /\ HoldsEnvelope(agents[i].inbound_topic_id, "connection_created",
                     agents[t].account_id)
    /\ agents[i].account_id \in DOMAIN agents[t].connections

\* C7: once handshake steps 1 and 2 have succeeded between two agents, a
\* send_message of either to the other succeeds and appends to the
\* connection topic the target created.
C7_BothSidesSendAfterHandshake ==
    \A i \in DOMAIN agents, t \in DOMAIN agents :
        (/\ i # t
         /\ HandshakeDone(i, t)
         /\ last.op = "send_message"
         /\ last.failAt = 0
         /\ \/ last.agent = i /\ last.target = agents[t].account_id
            \/ last.agent = t /\ last.target = agents[i].account_id)
            => /\ last.ok
               /\ last.topic = agents[t].connections[agents[i].account_id].topic_id

\* C8: a successful send, by send_message or by send_transaction_request,
\* leaves the connection's last_activity at the time of the send.
C8_SendUpdatesLastActivity ==
    (/\ last.op \in {"send_message", "send_transaction_request"}
     /\ last.ok)
        => agents[last.agent].connections[last.target].last_activity = last.time

\* C12: a successful request_connection that names the account id of an
\* initialized agent appends the connection_request envelope to the inbound
\* topic that agent created in its initialize(), and the envelope's
\* operator_id is the requester's inbound topic id and account id.
C12_RequestReachesTargetInbound ==
    \A b \in DOMAIN agents :
        (/\ last.op = "request_connection" /\ last.ok
         /\ agents[b].status = "registered"
         /\ last.target = agents[b].account_id)
            => /\ last.topic = agents[b].inbound_topic_id
               /\ LET msgs == topics[last.topic].messages
                      content == JsonLoads(Decode(msgs[Len(msgs)].contents))
                  IN /\ content.tag = "dict"
                     /\ content.v.op = "connection_request"
                     /\ content.v.operator_topic = agents[last.agent].inbound_topic_id
                     /\ content.v.operator_account = agents[last.agent].account_id

\* C20: request_connection neither creates nor modifies a Connection
\* record of the initiator: the step leaves every agent as it is, a key
\* enters an agent's connection map only by that agent's own successful
\* create_connection, and so, however many requests were sent, send_message
\* to a target without a record fails with the no-active-connection error
\* and sends nothing.
C20_RequestLeavesConnectionsAlone ==
    [][/\ last'.op = "request_connection" => agents' = agents
       /\ \A a \in DOMAIN agents :
            DOMAIN agents'[a].connections # DOMAIN agents[a].connections
                => /\ last'.op = "create_connection"
                   /\ last'.agent = a
                   /\ last'.ok
       /\ (/\ last'.op = "send_message"
           /\ last'.target \notin DOMAIN agents[last'.agent].connections)
            => /\ ~last'.ok
               /\ last'.cause = "no_active_connection"
               /\ topics' = topics
               /\ agents' = agents]_vars

\* C20 witness: a send_message that failed for want of a record, by an
\* initialized agent whose connection_request for that target is on the
\* topic request_connection computed
C20_Witness ==
    /\ last.op = "send_message" /\ ~last.ok
    /\ last.cause = "no_active_connection"
    /\ agents[last.agent].status = "registered"
    /\ HoldsEnvelope(FindAgentInboundTopic(input.hash_seed, last.target),
                     "connection_request", agents[last.agent].account_id)

\* C13: a successful create_connection(r, t) leaves in the agent's
\* connection map, under r, a record with remote_agent_id r, status active
\* and the connection topic that call created; and a successful
\* send_message(r, ...) appends one message to the topic of the record held
\* for r, to no other topic, and leaves the record on that topic.
C13_RecordNamesConnectionTopic ==
    [][/\ (last'.op = "create_connection" /\ last'.ok)
            => LET a == last'.agent
                   r == last'.target
               IN /\ r \in DOMAIN agents'[a].connections
                  /\ agents'[a].connections[r].remote_agent_id = r
                  /\ agents'[a].connections[r].status = "active"
                  /\ agents'[a].connections[r].topic_id = last'.topic
                  /\ last'.topic \notin DOMAIN topics
                  /\ last'.topic \in DOMAIN topics'
                  /\ topics'[last'.topic].memo = "hcs-10:connection"
       /\ (last'.op = "send_message" /\ last'.ok)
            => LET a == last'.agent
                   r == last'.target
                   t == agents[a].connections[r].topic_id
               IN /\ last'.topic = t
                  /\ t \in ConnectionTopics
                  /\ Len(topics'[t].messages) = Len(topics[t].messages) + 1
                  /\ \A u \in DOMAIN topics \ {t} : topics'[u] = topics[u]
                  /\ agents'[a].connections[r].topic_id = t]_vars

\* a send_message that succeeded on the topic of a connection the sender
\* created
C13_Witness ==
    /\ last.op = "send_message" /\ last.ok
    /\ last.target \in DOMAIN agents[last.agent].connections
    /\ agents[last.agent].connections[last.target].topic_id = last.topic
    /\ last.topic \in ConnectionTopics
    /\ Len(topics[last.topic].messages) >= 1

\* the payloads on the network, parsed
ParsedPayloads ==
    UNION {{LET raw == topics[u].messages[i].contents
            IN IF WellFormedUTF8(raw) THEN JsonLoads(Decode(raw))
               ELSE [tag |-> "error", v |-> Tok("none")] :
                i \in DOMAIN topics[u].messages} : u \in DOMAIN topics}

\* C13 as stated: after a successful create_connection(r, t) every later
\* successful send_message(r, ...) of that agent appends to the topic that
\* call created, that is, to the topic every connection_created envelope the
\* agent appended for r announces.
C13_SendUsesTopicOfEveryCreate ==
    (last.op = "send_message" /\ last.ok)
        => \A e \in ParsedPayloads :
               (/\ e.tag = "dict"
                /\ e.v.op = "connection_created"
                /\ e.v.connected_account_id = last.target
                /\ e.v.operator_account = agents[last.agent].account_id
                /\ e.v.operator_topic = agents[last.agent].inbound_topic_id)
                   => e.v.connection_topic_id = last.topic

\* C30: every protocol envelope an agent has appended names the agent by
\* an identity that was assigned: the account_id of a register envelope,
\* and the inbound topic id and the account id in the operator_id of a
\* connection_request, connection_created, message or transaction
\* envelope, are none of them unset, whatever the status of the agent was
\* when it appended the envelope.
C30_EnvelopesCarryAssignedIdentity ==
    \A e \in ParsedPayloads :
        (e.tag = "dict" /\ e.v.p = "hcs-10")
            => /\ e.v.op = "register" => e.v.account_id # None
               /\ e.v.op \in {"connection_request", "connection_created",
                              "message", "transaction"}
                    => /\ e.v.operator_account # None
                       /\ e.v.operator_topic # None

(***************************************************************************)
(* Specification of the subscriptions of the Log Client: topics of the     *)
(* network are subscribed to and unsubscribed from, any party appends to   *)
(* them, and the SDK delivers to the live subscriptions.                   *)
(***************************************************************************)
Handlers == {"h1", "h2"}

\* what is appended: a text, and bytes that are no UTF-8
SubPayloads == {Encode(<<CharA>>), <<ByteLead>>}

RECURSIVE CreateTopics(_)
CreateTopics(n) ==
    IF n = 0 THEN <<>> ELSE NetCreateTopic(CreateTopics(n - 1), "", "public")

SubInit ==
    /\ topics = CreateTopics(MaxSubTopics)
    /\ nextAccount = 1
    /\ clock = 1
    /\ topic_registry = <<>>
    /\ confirmed = <<>>
    /\ agents = <<>>
    /\ subs = Subs0
    /\ input = Input0
    /\ tasks = <<>>
    /\ last = Last0

SubFrame ==
    UNCHANGED <<nextAccount, clock, topic_registry, confirmed, agents, tasks, input>>

\* HCSService.subscribe_to_topic(topic_id, message_handler, start_time)
subscribe_to_topic ==
    /\ Len(subs.live) < MaxSubs
    /\ \E t \in DOMAIN topics, h \in Handlers, from_start \in BOOLEAN,
          failAt \in 0..1 :
        LET r == SubscribeToTopic(subs, topics, t, RawHandler(h), from_start,
                                  failAt)
        IN /\ subs' = r.subs
           /\ last' = [Last0 EXCEPT !.op = "subscribe_to_topic", !.topic = t,
                           !.kind = h, !.ok = r.ok,
                           !.error = IF r.ok THEN "" ELSE "BlockchainError",
                           !.calls = 1, !.failAt = failAt]
    /\ UNCHANGED topics
    /\ SubFrame

\* HCSService.unsubscribe_from_topic(topic_id)
unsubscribe_from_topic ==
    /\ \E t \in DOMAIN topics :
        /\ subs' = UnsubscribeFromTopic(subs, t)
        /\ last' = [Last0 EXCEPT !.op = "unsubscribe_from_topic", !.topic = t]
    /\ UNCHANGED topics
    /\ SubFrame

\* some party appends a message to a topic
SubAppend ==
    /\ \E t \in DOMAIN topics, b \in SubPayloads :
        /\ Len(topics[t].messages) < MaxSubMsgs
        /\ topics' = NetAppend(topics, t, b, NoMemo)
        /\ last' = [Last0 EXCEPT !.op = "append", !.topic = t]
    /\ UNCHANGED subs
    /\ SubFrame

\* the SDK calls wrapped_handler with the next message of a subscription
Deliver ==
    /\ \E k \in DOMAIN subs.live, raises \in BOOLEAN :
        /\ subs.live[k].next <= Len(topics[subs.live[k].topic].messages)
        /\ LET r == DeliverNext(subs, topics, k, raises)
           IN /\ raises => r.invoked
              /\ subs' = r.subs
              /\ last' = [Last0 EXCEPT !.op = "deliver", !.target = k,
                              !.topic = subs.live[k].topic,
                              !.kind = subs.live[k].handler.name,
                              !.ok = r.cause \in {"", "filtered"},
                              !.cause = r.cause,
                              !.calls = IF r.invoked THEN 1 ELSE 0,
                              !.time = r.sequence_number]
    /\ UNCHANGED topics
    /\ SubFrame

SubNext ==
    \/ subscribe_to_topic
    \/ unsubscribe_from_topic
    \/ SubAppend
    \/ Deliver

SpecSub == SubInit /\ [][SubNext]_vars

(***************************************************************************)
(* Specification of the consensus updates: topics of the network are       *)
(* subscribed to through the ConsensusManager, any party appends to them,  *)
(* and the SDK delivers to the live subscriptions.                         *)
(***************************************************************************)
\* the message_type_filter arguments tried: none, and a type
SubFilters == {"", "audit_record"}

\* the caller's handler
UpdateHandlers == {"h1"}

\* what is appended: a text that is no JSON, bytes that are no UTF-8, a JSON
\* number, and a business envelope
UpdatePayloads ==
    {Encode(<<CharA>>), <<ByteLead>>, Encode(<<Digit>>),
     Encode(JsonDumps(Envelope("waste_submission", "medium", NoData)))}

\* ConsensusManager.subscribe_to_consensus_updates(topic_id, message_handler,
\* message_type_filter)
subscribe_to_consensus_updates ==
    /\ Len(subs.live) < MaxSubs
    /\ \E t \in DOMAIN topics, h \in UpdateHandlers, f \in SubFilters,
          failAt \in 0..1 :
        LET r == SubscribeToConsensusUpdates(subs, topics, t, h, f, failAt)
        IN /\ subs' = r.subs
           /\ last' = [Last0 EXCEPT !.op = "subscribe_to_consensus_updates",
                           !.topic = t, !.kind = h, !.filter = f, !.ok = r.ok,
                           !.error = IF r.ok THEN "" ELSE "BlockchainError",
                           !.calls = 1, !.failAt = failAt]
    /\ UNCHANGED topics
    /\ SubFrame

\* some party appends a message to a topic
UpdatesAppend ==
    /\ \E t \in DOMAIN topics, b \in UpdatePayloads :
        /\ Len(topics[t].messages) < MaxSubMsgs
        /\ topics' = NetAppend(topics, t, b, NoMemo)
        /\ last' = [Last0 EXCEPT !.op = "append", !.topic = t]
    /\ UNCHANGED subs
    /\ SubFrame

UpdatesNext ==
    \/ subscribe_to_consensus_updates
    \/ UpdatesAppend
    \/ Deliver

SpecUpdates == SubInit /\ [][UpdatesNext]_vars

(***************************************************************************)
(* Claims about the subscriptions (SpecSub).                               *)
(***************************************************************************)

\* C14: once unsubscribe_from_topic has returned for a topic, the handler
\* of a subscription to it that was made before is not invoked again,
\* whatever is appended to the topic afterwards.
C14_NoDeliveryAfterUnsubscribe ==
    [][(last'.op = "deliver" /\ last'.calls = 1)
        => ~subs.live[last'.target].cancelled]_vars

(***************************************************************************)
(* Claims about one agent and its connections (SpecConnections).           *)
(***************************************************************************)

\* C17: get_agent_status is a read-only snapshot: it leaves the agents
\* (status, topic ids, connection map, every last_activity) and the network
\* as they are and makes no network call; the total it reports is the
\* number of Connection records, the active count the number of records
\* whose status is active (never more than the total), and the last
\* activity the latest last_activity of the connections that have one, or
\* the time of the call when none has.
C17_StatusIsReadOnlySnapshot ==
    [][last'.op = "get_agent_status"
        => LET conns == agents[last'.agent].connections
               snap == last'.snapshot
               active == {r \in DOMAIN conns : conns[r].status = "active"}
               touched == {r \in DOMAIN conns : conns[r].last_activity # None}
           IN /\ agents' = agents
              /\ topics' = topics
              /\ last'.calls = 0 /\ last'.txs = 0
              /\ snap.connections.total = Cardinality(DOMAIN conns)
              /\ snap.connections.active = Cardinality(active)
              /\ snap.connections.active <= snap.connections.total
              /\ IF touched = {} THEN snap.last_activity = clock
                 ELSE /\ \E r \in touched :
                            snap.last_activity = conns[r].last_activity
                      /\ \A r \in touched :
                            conns[r].last_activity <= snap.last_activity]_vars

\* C17 witness: a snapshot of an agent that holds two connections, one used
\* after the other, taken later than the last use
C17_Witness ==
    /\ last.op = "get_agent_status"
    /\ LET conns == agents[last.agent].connections
       IN /\ Cardinality(DOMAIN conns) = 2
          /\ \E r, q \in DOMAIN conns :
                /\ conns[r].last_activity # None
                /\ conns[q].last_activity # None
                /\ conns[r].last_activity < conns[q].last_activity
                /\ conns[q].last_activity < clock
                /\ last.snapshot.last_activity = conns[q].last_activity

\* the connection_created envelopes the step appended: topic and payload
AnnouncedInStep ==
    UNION {{[topic |-> t,
             content |-> JsonLoads(Decode(topics'[t].messages[i].contents)).v] :
                i \in {j \in DOMAIN topics'[t].messages :
                        /\ j > Len(topics[t].messages)
                        /\ WellFormedUTF8(topics'[t].messages[j].contents)
                        /\ JsonLoads(Decode(topics'[t].messages[j].contents)).v.op
                                = "connection_created"}} :
           t \in DOMAIN topics}

\* C19: create_connection announces a connection topic only after it
\* exists: a connection_created envelope is appended only by a call whose
\* topic creation has succeeded before the append, it names the topic that
\* creation returned, and a call whose topic creation fails appends nothing.
C19_AnnouncedTopicExists ==
    [][last'.op = "create_connection"
        => /\ last'.failAt = 1 => (topics' = topics /\ AnnouncedInStep = {})
           /\ \A e \in AnnouncedInStep :
                /\ Len(topics') = Len(topics) + 1
                /\ topics'[Len(topics')].memo = "hcs-10:connection"
                /\ e.content.connection_topic_id = Len(topics')
                /\ last'.topic = Len(topics')
                /\ last'.trace = <<"create_topic", "submit_message">>
           /\ Cardinality(AnnouncedInStep) <= 1
           /\ last'.ok => Cardinality(AnnouncedInStep) = 1]_vars

\* C19 witness: a create_connection for the other party whose topic
\* creation failed, after one that succeeded: the other party's inbound
\* topic holds the one announcement of the first call
C19_Witness ==
    /\ last.op = "create_connection" /\ last.failAt = 1 /\ ~last.ok
    /\ last.target = ForeignAccount
    /\ ForeignAccount \in DOMAIN agents[last.agent].connections
    /\ \E t \in DOMAIN topics :
        /\ topics[t].memo = "foreign:inbound"
        /\ Len(topics[t].messages) = 1

\* C27: a create_connection that fails, at the threshold key, at the
\* creation of the connection topic or at the append of connection_created,
\* leaves the connection map of the agent as it was: no record is stored for
\* the requester, also when the connection topic was created before the
\* failure.
C27_FailedCreateStoresNothing ==
    [][(last'.op = "create_connection" /\ ~last'.ok)
        => /\ agents'[last'.agent].connections = agents[last'.agent].connections
           /\ \A a \in DOMAIN agents : agents'[a] = agents[a]]_vars

\* C27 witness: the append of connection_created failed after the
\* connection topic was created: the topic is on the network and the map
\* holds no record for the requester
C27_Witness ==
    /\ last.op = "create_connection" /\ ~last.ok /\ last.failAt = 2
    /\ last.topic \in DOMAIN topics
    /\ topics[last.topic].memo = "hcs-10:connection"
    /\ last.target \notin DOMAIN agents[last.agent].connections

\* the connection topics the connection_created envelopes on the network
\* announce for remote agent r
AnnouncedFor(r) ==
    {e.v.connection_topic_id :
        e \in {p \in ParsedPayloads : /\ p.tag = "dict"
                                      /\ p.v.op = "connection_created"
                                      /\ p.v.connected_account_id = r}}

Accepted(sub, n) ==
    LET raw == topics[sub.topic].messages[n].contents
        content == JsonLoads(Decode(raw))
    IN /\ WellFormedUTF8(raw)
       /\ sub.handler.filtered
            => /\ content.tag = "dict"
               /\ (sub.handler.filter = "" \/ content.v.type = sub.handler.filter)

\* C21: a message on which the handler raises, or whose payload cannot be
\* decoded or parsed, is dropped and nothing else: the delivery moves the
\* subscription to the next message of its topic and leaves every other
\* subscription, the tables and the network as they are, and every
\* subscription has handed to its handler, in order, every acceptable
\* message of its topic it has passed, whatever faults came before.
C21_FaultsAreIsolated ==
    /\ [](\A k \in DOMAIN subs.live :
            LET sub == subs.live[k]
                acc == {n \in sub.start..(sub.next - 1) : Accepted(sub, n)}
            IN /\ sub.next <= Len(topics[sub.topic].messages) + 1
               /\ Len(sub.invoked) = Cardinality(acc)
               /\ \A i \in DOMAIN sub.invoked : sub.invoked[i] \in acc
               /\ \A i, j \in DOMAIN sub.invoked :
                    i < j => sub.invoked[i] < sub.invoked[j])
    /\ [][last'.op = "deliver"
            => LET k == last'.target
               IN /\ DOMAIN subs'.live = DOMAIN subs.live
                  /\ \A j \in DOMAIN subs.live \ {k} : subs'.live[j] = subs.live[j]
                  /\ subs'.live[k].next = subs.live[k].next + 1
                  /\ subs'.live[k].topic = subs.live[k].topic
                  /\ subs'.live[k].handler = subs.live[k].handler
                  /\ subs'.subscribed_topics = subs.subscribed_topics
                  /\ subs'.message_handlers = subs.message_handlers
                  /\ subs'.active_subscriptions = subs.active_subscriptions
                  /\ topics' = topics]_vars

\* C21 witness: a handler is called with the second message of its topic
\* after the first one was not acceptable, while a subscription on the other
\* topic has had a delivery
C21_Witness ==
    /\ last.op = "deliver" /\ last.calls = 1 /\ last.time = 2
    /\ LET sub == subs.live[last.target]
       IN /\ sub.start = 1
          /\ ~Accepted(sub, 1)
          /\ sub.invoked = <<2>>
          /\ \E j \in DOMAIN subs.live :
                /\ subs.live[j].topic # sub.topic
                /\ subs.live[j].invoked # <<>>

(***************************************************************************)
(* Specification of concurrent submissions: submit_* coroutines of one     *)
(* event loop, which run from one await to the next without interruption,  *)
(* on topics the manager created.                                          *)
(***************************************************************************)
\* a data object that is complete for every operation
AllFields == UNION {FullData(k) : k \in SubmitKinds}

\* the operations run concurrently
ConcurrentKinds == {"waste_submission", "carbon_verification"}

ConcurrentInit ==
    /\ topics = <<>>
    /\ nextAccount = 1
    /\ clock = 1
    /\ topic_registry = <<>>
    /\ confirmed = [t \in 1..MaxCMTopics |-> 0]
    /\ agents = <<>>
    /\ input = [Input0 EXCEPT !.data = [fields |-> AllFields, bulk |-> 0],
                              !.priority = "medium"]
    /\ subs = Subs0
    /\ tasks = <<>>
    /\ last = Last0

ConcurrentFrame == UNCHANGED <<nextAccount, agents, subs, input>>

\* ConsensusManager.create_consensus_topic(topic_type, description), called
\* while no submission is running
CreateRegisteredTopic ==
    /\ tasks = <<>>
    /\ Len(topics) < MaxCMTopics
    /\ \E topic_type \in CMTopicTypes :
        /\ topics' = NetCreateTopic(topics, topic_type, "public")
        /\ topic_registry' = Register(topic_registry, Len(topics) + 1, topic_type)
        /\ last' = [Last0 EXCEPT !.op = "create_consensus_topic",
                        !.topic = Len(topics) + 1, !.calls = 1, !.txs = 1]
    /\ UNCHANGED <<clock, confirmed, tasks>>
    /\ ConcurrentFrame

\* a submit_* coroutine is started and runs to its await of submit_message
SubmitAwait ==
    /\ Len(tasks) < MaxTasks
    /\ \E kind \in ConcurrentKinds, t \in DOMAIN topics, failAt \in 0..1 :
        LET r == SubmitTypedAwait(kind, topic_registry, topics, t, input.data,
                                  input.priority, failAt)
        IN /\ Len(topics[t].messages) < MaxTaskMsgs
           /\ r.suspended
           /\ topics' = r.topics
           /\ tasks' = Append(tasks, r.task)
           /\ last' = [Last0 EXCEPT !.op = "submit_await", !.kind = kind,
                           !.topic = t, !.failAt = failAt, !.calls = 1,
                           !.seen = r.task.seen]
    /\ UNCHANGED <<clock, topic_registry, confirmed>>
    /\ ConcurrentFrame

\* the event loop resumes one of the suspended coroutines, which runs to its
\* end
SubmitResume ==
    /\ \E i \in DOMAIN tasks :
        LET task == tasks[i]
        IN /\ topic_registry' = ResumeRegistry(task, topic_registry, clock)
           /\ confirmed' = IF task.ok
                           THEN [confirmed EXCEPT ![task.topic_id] = @ + 1]
                           ELSE confirmed
           /\ clock' = IF task.ok THEN clock + 1 ELSE clock
           /\ tasks' = [j \in 1..(Len(tasks) - 1) |->
                            IF j < i THEN tasks[j] ELSE tasks[j + 1]]
           /\ last' = [Last0 EXCEPT !.op = "submit_resume", !.kind = task.kind,
                           !.topic = task.topic_id, !.ok = task.ok,
                           !.error = IF task.ok THEN "" ELSE "BlockchainError",
                           !.cause = IF task.ok THEN "" ELSE "BlockchainError",
                           !.text = IF task.ok THEN "" ELSE FailureSubject(task.kind),
                           !.calls = 1, !.time = clock, !.seen = task.seen]
    /\ UNCHANGED topics
    /\ ConcurrentFrame

ConcurrentNext ==
    \/ CreateRegisteredTopic
    \/ SubmitAwait
    \/ SubmitResume

SpecConcurrent == ConcurrentInit /\ [][ConcurrentNext]_vars

(***************************************************************************)
(* Claims about concurrent submissions (SpecConcurrent).                   *)
(***************************************************************************)

\* the suspended coroutines on topic t whose append succeeded
Pending(t) == {i \in DOMAIN tasks : tasks[i].topic_id = t /\ tasks[i].ok}

\* C22: no update of the registry is lost: under every interleaving of
\* submit_* coroutines, the message_count of a registered topic and the
\* successful appends still waiting to be counted add up to the messages on
\* the topic, each resumed coroutine whose append succeeded raises the count
\* of its topic by exactly one, and no resumed coroutine changes the entry
\* of another topic.
C22_NoLostRegistryUpdate ==
    /\ [](\A t \in DOMAIN topic_registry :
            topic_registry[t].message_count + Cardinality(Pending(t))
                = Len(topics[t].messages))
    /\ [][last'.op = "submit_resume"
            => /\ DOMAIN topic_registry' = DOMAIN topic_registry
               /\ \A t \in DOMAIN topic_registry :
                    IF t = last'.topic /\ last'.ok
                    THEN topic_registry'[t].message_count
                            = topic_registry[t].message_count + 1
                    ELSE topic_registry'[t] = topic_registry[t]]_vars

\* C22 witness: the second of two coroutines that were suspended on the same
\* topic at the same time has been resumed: it saw a count of 0 when it was
\* suspended and leaves a count of 2
C22_Witness ==
    /\ last.op = "submit_resume" /\ last.ok /\ last.seen = 0
    /\ topic_registry[last.topic].message_count = 2

(***************************************************************************)
(* Specification of the platform topics: the manager's topics are created  *)
(* by initialize_platform_topics, and waste submissions are submitted to   *)
(* the first of them.                                                      *)
(***************************************************************************)
PlatformInit ==
    /\ topics = <<>>
    /\ nextAccount = 1
    /\ clock = 1
    /\ topic_registry = <<>>
    /\ confirmed = [t \in 1..MaxCMTopics |-> 0]
    /\ agents = <<>>
    /\ input = [Input0 EXCEPT
                    !.data = [fields |-> FullData("waste_submission"), bulk |-> 0],
                    !.priority = "medium"]
    /\ subs = Subs0
    /\ tasks = <<>>
    /\ last = Last0

\* ConsensusManager.initialize_platform_topics()
initialize_platform_topics ==
    /\ Len(topics) + Len(PlatformTopicTypes)
            <= MaxPlatformCalls * Len(PlatformTopicTypes)
    /\ \E failAt \in 0..Len(PlatformTopicTypes) :
        LET r == InitializePlatformTopics(topic_registry, topics, failAt)
        IN /\ topics' = r.topics
           /\ topic_registry' = r.registry
           /\ last' = [Last0 EXCEPT !.op = "initialize_platform_topics",
                           !.ok = r.ok,
                           !.error = IF r.ok THEN "" ELSE "BlockchainError",
                           !.cause = IF r.ok THEN "" ELSE "BlockchainError",
                           !.calls = r.calls, !.failAt = failAt,
                           !.out = r.platform_topics]
    /\ UNCHANGED <<clock, confirmed>>
    /\ CMFrame

PlatformNext ==
    \/ initialize_platform_topics
    \/ submit_waste_submission
    \/ query_consensus_history

SpecPlatform == PlatformInit /\ [][PlatformNext]_vars

(***************************************************************************)
(* Claims about the platform topics (SpecPlatform).                        *)
(***************************************************************************)

\* C23: the registry only grows: no step removes an entry or lowers a
\* message_count; a successful initialize_platform_topics creates six new
\* topics on the network and adds six entries for them, one of each type,
\* and touches no earlier entry; so when no call has failed partway, the
\* registry holds six entries for every successful call.
C23_RegistryIsAppendOnly ==
    /\ [][/\ DOMAIN topic_registry \subseteq DOMAIN topic_registry'
          /\ \A t \in DOMAIN topic_registry :
                topic_registry'[t].message_count
                    >= topic_registry[t].message_count
          /\ (last'.op = "initialize_platform_topics" /\ last'.ok)
                => LET new == DOMAIN topic_registry' \ DOMAIN topic_registry
                   IN /\ Len(topics') = Len(topics) + 6
                      /\ new = (Len(topics) + 1)..(Len(topics) + 6)
                      /\ {topic_registry'[t].topic_type : t \in new} = TopicTypes
                      /\ \A t \in new :
                            /\ topics'[t].memo = topic_registry'[t].topic_type
                            /\ topic_registry'[t].message_count = 0
                      /\ \A t \in DOMAIN topic_registry :
                            topic_registry'[t] = topic_registry[t]]_vars
    /\ [](LET started == {t \in DOMAIN topics : topics[t].memo = PlatformTopicTypes[1]}
              finished == {t \in DOMAIN topics : topics[t].memo = PlatformTopicTypes[6]}
          IN Cardinality(started) = Cardinality(finished)
                => Cardinality(DOMAIN topic_registry) = 6 * Cardinality(finished))

\* C23 witness: the second successful initialize_platform_topics, with a
\* message counted on a topic of the first
C23_Witness ==
    /\ last.op = "initialize_platform_topics" /\ last.ok
    /\ Cardinality(DOMAIN topic_registry) = 12
    /\ \E t \in DOMAIN topic_registry : topic_registry[t].message_count >= 1

====
